---- MODULE Spec2Model ----
(***************************************************************************)
(* The game protocol server (game_protocol/server/mod.rs) hosting the      *)
(* tic-tac-toe game module (tic_tac_toe/lib.rs): one thread per accepted   *)
(* connection, all of them working on GameProtocolServerState behind one   *)
(* Mutex.  A step of the model is one critical section of one thread: the  *)
(* handling of one message read from the socket, or the clean up that      *)
(* follows the listening loop.                                             *)
(***************************************************************************)
EXTENDS Integers, Sequences, FiniteSets, TLC

(***************************************************************************)
(* Bounds of the model.                                                    *)
(***************************************************************************)
\* Connections the server has accepted (one listen_to_client thread each).
NumConnections == 3
\* Size of the pool Uuid::new_v4() draws lobby ids from.
NumLobbyIds == 2
\* Largest message sequence number: u32::MAX of the code, scaled down.
U32_MAX == 3
\* Connections of the specifications that follow one lobby through a game, and
\* of the one that follows the sequence numbers of a connection.
NumGameConnections == 2
\* A wider scaled-down u32::MAX on which the sequence check is evaluated alone.
WideU32Max == 15
\* Most ids a Uuid loop draws before it ends.
MaxDraws == 2
\* Bytes of a u32 on the wire, scaled down from size_of::<u32>() = 4.
SizeOfU32 == 2
\* Bytes of a u16 on the wire, scaled so that every code of the two
\* enumerations and some codes beyond them fit.
SizeOfU16 == 3
\* Most characters of a payload string, and most bytes of a received frame
\* beyond its two u32 fields, that are enumerated in full.
MaxPayload == 2

Conns == 1..NumConnections
GameConns == 1..NumGameConnections
ClientIdNames == <<"c1", "c2", "c3", "c4", "c5", "c6">>
ClientIds == {ClientIdNames[i] : i \in Conns}
LobbyIdNames == <<"l1", "l2", "l3", "l4", "l5">>
LobbyIds == {LobbyIdNames[i] : i \in 1..NumLobbyIds}
MessageIds == 0..U32_MAX

\* Option::None
None == "None"
\* The empty body of a message that is only headers.
NoBody == [empty |-> TRUE]

(***************************************************************************)
(* Sequence helpers (Vec operations used by the code).                     *)
(***************************************************************************)
Contains(s, x) == \E i \in 1..Len(s) : s[i] = x

\* Iterator::position: index of the first element equal to x (1-based), 0 for None.
Position(s, x) ==
    IF Contains(s, x) THEN CHOOSE i \in 1..Len(s) : s[i] = x /\ \A j \in 1..(i - 1) : s[j] # x
    ELSE 0

\* Vec::remove(i)
RemoveAt(s, i) == SubSeq(s, 1, i - 1) \o SubSeq(s, i + 1, Len(s))

\* The range a..=b collected in order.
RangeInclusive(a, b) == [i \in 1..(b - a + 1) |-> a + i - 1]

\* HashMap::insert and HashMap::remove on a map held as a function.
MapInsert(m, k, v) == [x \in (DOMAIN m) \cup {k} |-> IF x = k THEN v ELSE m[x]]
MapRemove(m, k) == [x \in (DOMAIN m) \ {k} |-> m[x]]
EmptyMap == [x \in {} |-> None]

(***************************************************************************)
(* The tic-tac-toe game module.                                            *)
(***************************************************************************)
CellElement == {"None", "X", "O"}
BoardIndices == 0..2

TicTacToeMetadata ==
    [game_title |-> "Tic-tac-toe", version |-> "1.0",
     max_players |-> 2, min_required_players |-> 2]

\* GameMetadata::get_game_type_id: "{game_title} v{version}"
TicTacToeTypeId == "Tic-tac-toe v1.0"

get_game_type_id(metadata) ==
    IF metadata = TicTacToeMetadata THEN TicTacToeTypeId ELSE "?"

\* TicTacToe::new
TicTacToe_new ==
    [players |-> <<>>,
     state |-> [board |-> [r \in BoardIndices |-> [c \in BoardIndices |-> "None"]],
                this_turn |-> "X",
                x_player_id |-> "",
                o_player_id |-> "",
                winner |-> None,
                game_over |-> FALSE],
     metadata |-> TicTacToeMetadata]

\* TicTacToe::init_new
init_new(template) == TicTacToe_new

\* TicTacToe::add_player
add_player(game, id) ==
    IF Contains(game.players, id) \/ Len(game.players) >= game.metadata.max_players
    THEN game
    ELSE [game EXCEPT
            !.players = Append(@, id),
            !.state.x_player_id = IF @ = "" THEN id ELSE @,
            !.state.o_player_id =
                IF game.state.x_player_id # "" /\ @ = "" THEN id ELSE @]

\* TicTacToe::remove_player
remove_player(game, id) ==
    IF ~Contains(game.players, id)
    THEN game
    ELSE [game EXCEPT
            !.players = RemoveAt(@, Position(game.players, id)),
            !.state.x_player_id = IF @ = id THEN "" ELSE @,
            !.state.o_player_id =
                IF game.state.x_player_id # id /\ @ = id THEN "" ELSE @]

\* TicTacToe::get_player_num
get_player_num(game) == Len(game.players)

\* TicTacToe::get_game_state
get_game_state(game) == game.state

\* TicTacToe::end_condition_met: <<ended, winner>>
end_condition_met(game) ==
    LET b == game.state.board
        top_row == b[0][0] = b[0][1] /\ b[0][1] = b[0][2]
        mid_row == b[1][0] = b[1][1] /\ b[1][1] = b[1][2]
        bot_row == b[2][0] = b[2][1] /\ b[2][1] = b[2][2]
        left_col == b[0][0] = b[1][0] /\ b[1][0] = b[2][0]
        mid_col == b[0][1] = b[1][1] /\ b[1][1] = b[2][1]
        right_col == b[0][2] = b[1][2] /\ b[1][2] = b[2][2]
        tl_to_br == b[0][0] = b[1][1] /\ b[1][1] = b[2][2]
        tr_to_bl == b[0][2] = b[1][1] /\ b[1][1] = b[2][0]
        \* one "check cell" block: <<ended, winner>> after it, given the pair before it
        Check(lines, cell, before) ==
            IF lines /\ cell = "O" THEN <<TRUE, game.state.o_player_id>>
            ELSE IF lines /\ cell = "X" THEN <<TRUE, game.state.x_player_id>>
            ELSE before
        r1 == Check(mid_row \/ mid_col \/ tl_to_br \/ tr_to_bl, b[1][1], <<FALSE, None>>)
        r2 == Check(top_row \/ right_col, b[0][2], r1)
        r3 == Check(bot_row \/ left_col, b[2][0], r2)
        is_full == \A r \in BoardIndices : \A c \in BoardIndices : b[r][c] # "None"
    IN  IF r3[2] = None /\ is_full THEN <<TRUE, r3[2]>> ELSE r3

\* Indexing board[board_index.0][board_index.1] panics outside the 3x3 board.
IndexInBounds(mv) == mv.board_index[1] \in BoardIndices /\ mv.board_index[2] \in BoardIndices

\* TicTacToe::is_valid_move (for a move whose index is inside the board)
is_valid_move(game, mv) ==
    LET correct_turn == mv.symbol = game.state.this_turn
        empty_space == game.state.board[mv.board_index[1]][mv.board_index[2]] = "None"
    IN  correct_turn /\ empty_space

\* TicTacToe::apply_move
apply_move(game, mv) ==
    IF ~is_valid_move(game, mv)
    THEN game
    ELSE [game EXCEPT
            !.state.this_turn = IF mv.symbol = "X" THEN "O"
                                ELSE IF mv.symbol = "O" THEN "X" ELSE @,
            !.state.board[mv.board_index[1]][mv.board_index[2]] = mv.symbol]

(***************************************************************************)
(* The wire codec of message bodies.                                       *)
(***************************************************************************)
\* A byte, scaled down to two bits: 0 and 1 are one-byte characters, 3 is the
\* lead byte of a two-byte character and 2 is a continuation byte.
Bytes == 0..3
\* The characters of a String: 0 and 1 take one byte in UTF-8, 2 takes two.
Chars == 0..2

\* u32::MAX for a u32 of SizeOfU32 bytes.
RECURSIVE Pow(_, _)
Pow(b, n) == IF n = 0 THEN 1 ELSE b * Pow(b, n - 1)
CodecU32Max == Pow(Cardinality(Bytes), SizeOfU32) - 1

\* A variant that writes the least significant byte first.
RECURSIVE LeBytes(_, _)
LeBytes(n, width) ==
    IF width = 0 THEN <<>>
    ELSE <<n % Cardinality(Bytes)>> \o LeBytes(n \div Cardinality(Bytes), width - 1)
to_le_bytes(n) == LeBytes(n, SizeOfU32)

\* u32::to_be_bytes, most significant byte first.
RECURSIVE BeBytes(_, _)
BeBytes(n, width) ==
    IF width = 0 THEN <<>>
    ELSE BeBytes(n \div Cardinality(Bytes), width - 1) \o <<n % Cardinality(Bytes)>>
to_be_bytes(n) == BeBytes(n, SizeOfU32)

\* u32::from_be_bytes
RECURSIVE from_be_bytes(_)
from_be_bytes(bytes) ==
    IF bytes = <<>> THEN 0
    ELSE from_be_bytes(SubSeq(bytes, 1, Len(bytes) - 1)) * Cardinality(Bytes)
             + bytes[Len(bytes)]

\* str::as_bytes: the UTF-8 encoding of a string.
RECURSIVE as_bytes(_)
as_bytes(str) ==
    IF str = <<>> THEN <<>>
    ELSE (IF str[1] < 2 THEN <<str[1]>> ELSE <<3, 2>>) \o as_bytes(Tail(str))

\* str::from_utf8: the string a byte sequence encodes, or an error for a lead
\* byte without its continuation byte or a continuation byte without its lead.
Utf8Error == [kind |-> "Err"]
RECURSIVE from_utf8(_)
from_utf8(bytes) ==
    IF bytes = <<>> THEN [kind |-> "Ok", str |-> <<>>]
    ELSE IF bytes[1] < 2
    THEN LET rest == from_utf8(Tail(bytes))
         IN  IF rest.kind = "Ok"
             THEN [kind |-> "Ok", str |-> <<bytes[1]>> \o rest.str] ELSE Utf8Error
    ELSE IF bytes[1] = 3 /\ Len(bytes) >= 2 /\ bytes[2] = 2
    THEN LET rest == from_utf8(Tail(Tail(bytes)))
         IN  IF rest.kind = "Ok"
             THEN [kind |-> "Ok", str |-> <<2>> \o rest.str] ELSE Utf8Error
    ELSE Utf8Error

\* crc32fast::hash, a checksum of the crate crc32fast: a function of the bytes
\* into the u32 range, computed byte by byte from the all-ones value.
RECURSIVE crc32fast_hash(_)
crc32fast_hash(bytes) ==
    IF bytes = <<>> THEN CodecU32Max
    ELSE (crc32fast_hash(SubSeq(bytes, 1, Len(bytes) - 1)) * 5 + bytes[Len(bytes)] + 1)
             % (CodecU32Max + 1)

\* What a call of the codec ends with: Ok(value), Err(error) or a panic.
Ok(value) == [kind |-> "Ok", value |-> value, error |-> "-"]
Err(error) == [kind |-> "Err", value |-> <<>>, error |-> error]
Panicked == [kind |-> "panic", value |-> <<>>, error |-> "-"]

\* Option<String>
NoneBody == [some |-> FALSE, str |-> <<>>]
Some(str) == [some |-> TRUE, str |-> str]

\* build_message_body
build_message_body(body) ==
    IF body.some
    THEN LET data_bytes == as_bytes(body.str)
         IN  IF Len(data_bytes) > CodecU32Max
             THEN <<>>
             ELSE to_be_bytes(Len(data_bytes) % (CodecU32Max + 1))
                      \o to_be_bytes(crc32fast_hash(data_bytes))
                      \o data_bytes
    ELSE to_be_bytes(0)

\* A variant of the payload check that decodes the bytes without comparing
\* the checksums.
PayloadUnchecked(size, remote_checksum, data_bytes) ==
    LET decoded == from_utf8(data_bytes)
    IN  IF decoded.kind = "Ok" THEN Ok(decoded.str) ELSE Err("BytesToStringError")

\* parse_message_payload from the checksum comparison on: size, the checksum
\* read from the frame and the size bytes after it.
PayloadChecked(size, remote_checksum, data_bytes) ==
    LET local_checksum == crc32fast_hash(data_bytes)
    IN  IF remote_checksum # local_checksum
        THEN Err("ChecksumError")
        ELSE IF size > Len(data_bytes)
        THEN Err("BodySizeError")
        ELSE LET decoded == from_utf8(data_bytes)
             IN  IF decoded.kind = "Ok" THEN Ok(decoded.str)
                 ELSE Err("BytesToStringError")

\* parse_message_payload.  slice::split_at panics when the slice is shorter than
\* the index it is split at.
parse_message_payload(data) ==
    IF Len(data) < SizeOfU32
    THEN Panicked
    ELSE LET size == from_be_bytes(SubSeq(data, 1, SizeOfU32))
             remainder == SubSeq(data, SizeOfU32 + 1, Len(data))
         IN  IF size > 0
             THEN IF Len(remainder) < SizeOfU32
                  THEN Panicked
                  ELSE LET remote_checksum == from_be_bytes(SubSeq(remainder, 1, SizeOfU32))
                           after == SubSeq(remainder, SizeOfU32 + 1, Len(remainder))
                       IN  IF Len(after) < size
                           THEN Panicked
                           ELSE PayloadChecked(size, remote_checksum,
                                               SubSeq(after, 1, size))
             ELSE Ok(<<>>)

\* serde_json::from_str for a request struct, of the crate serde_json: whether
\* the text deserializes.  Here the texts that do open with character 1.
serde_json_is_ok(data_string) == data_string # <<>> /\ data_string[1] = 1

\* parse_message_data
parse_message_data(raw) ==
    LET parsed == parse_message_payload(raw)
    IN  IF parsed.kind = "Ok"
        THEN IF serde_json_is_ok(parsed.value) THEN Ok(parsed.value)
             ELSE Err("DeserializeError")
        ELSE parsed

\* parse_create_lobby_request, parse_join_lobby_request,
\* parse_start_game_request and parse_move_request return the request struct
\* itself: they unwrap what was decoded and panic when there is none.
parse_request(raw) ==
    LET decoded == parse_message_data(raw)
    IN  IF decoded.kind = "Ok" THEN decoded ELSE Panicked

\* enum MessageType, in the order of its declaration.
MessageTypeValues ==
    <<"Unsupported", "ProtocolError", "ConnectRequest", "ConnectResponse",
      "DisconnectRequest", "DisconnectResponse", "SupportedGamesRequest",
      "SupportedGamesResponse", "LobbyListRequest", "LobbyListResponse",
      "CreateLobbyRequest", "JoinLobbyRequest", "ReturnToLobbyRequest",
      "LobbyInfoRequest", "LobbyInfoResponse", "LeaveLobbyRequest",
      "LeaveLobbyResponse", "StartGameRequest", "MoveRequest", "GameStateResponse",
      "MissingMessageResponse", "UnsolicitedMessage">>

\* enum StatusCode, in the order of its declaration.
StatusCodeValues ==
    <<"UnexpectedError", "Success", "DataParseError", "DataIntegrityError",
      "MessageSequenceError", "MalformedBody", "UnsupportedRequestType",
      "UnsupportedAuthMethod", "UnsupportedGame", "NoActiveSession", "LobbyFull",
      "AlreadyInALobby", "GameStarted", "NotInLobby", "GameSessionNotFound",
      "LobbyNotFound", "GameStartCriteriaNotMet", "GameOver", "InvalidMove">>

\* value as u16: the discriminant of a value of a fieldless enum is its
\* position in the declaration, counted from 0.
as_u16(values, value) == (CHOOSE i \in 1..Len(values) : values[i] = value) - 1

\* The u16 of a header on the wire and back.
u16_to_be_bytes(n) == BeBytes(n, SizeOfU16)
U16Max == Pow(Cardinality(Bytes), SizeOfU16) - 1

\* The arms of the match in parse_message_type, for the codes 0 to 20.
MessageTypeArms ==
    <<"Unsupported", "ProtocolError", "ConnectRequest", "ConnectResponse",
      "DisconnectRequest", "DisconnectResponse", "SupportedGamesRequest",
      "SupportedGamesResponse", "LobbyListRequest", "LobbyListResponse",
      "CreateLobbyRequest", "JoinLobbyRequest", "ReturnToLobbyRequest",
      "LobbyInfoRequest", "LobbyInfoResponse", "LeaveLobbyRequest",
      "LeaveLobbyResponse", "StartGameRequest", "MoveRequest", "GameStateResponse",
      "UnsolicitedMessage">>

\* The arms of the match in parse_status_code, for the codes 0 to 18.
StatusCodeArms ==
    <<"UnexpectedError", "Success", "DataParseError", "DataIntegrityError",
      "MessageSequenceError", "MalformedBody", "UnsupportedRequestType",
      "UnsupportedAuthMethod", "UnsupportedGame", "NoActiveSession", "LobbyFull",
      "AlreadyInALobby", "GameStarted", "NotInLobby", "GameSessionNotFound",
      "LobbyNotFound", "GameStartCriteriaNotMet", "GameOver", "InvalidMove">>

\* match code { 0 => .., 1 => .., _ => wildcard }
MatchCode(arms, code, wildcard) ==
    IF code < Len(arms) THEN arms[code + 1] ELSE wildcard

\* parse_message_type, on the bytes of the type field
parse_message_type(type_bytes) ==
    MatchCode(MessageTypeArms, from_be_bytes(type_bytes), "Unsupported")

\* parse_status_code, on the bytes of the status field
parse_status_code(status_bytes) ==
    MatchCode(StatusCodeArms, from_be_bytes(status_bytes), "UnexpectedError")

\* The enumeration a header field belongs to, the value the sender writes, the
\* bytes of the field on the wire, the value the receiver decodes, and where
\* the exchange stands.
VARIABLES header_enum, header_value, header_bytes, header_decoded, header_pc

header_vars == <<header_enum, header_value, header_bytes, header_decoded, header_pc>>

\* No header field is under way.
HeaderIdle ==
    /\ header_enum = "MessageType"
    /\ header_value = "Unsupported"
    /\ header_bytes = <<>>
    /\ header_decoded = "Unsupported"
    /\ header_pc = "idle"

\* The argument of build_message_body, the bytes on the wire, what
\* parse_message_payload returned for them, and where the exchange stands.
VARIABLES message_body, raw_message, parse_result, codec_pc

codec_vars == <<message_body, raw_message, parse_result, codec_pc, header_vars>>

\* No message body is under way.
CodecIdle ==
    /\ message_body = NoneBody
    /\ raw_message = <<>>
    /\ parse_result = Ok(<<>>)
    /\ codec_pc = "idle"
    /\ HeaderIdle

(***************************************************************************)
(* The client.                                                             *)
(***************************************************************************)
\* GameProtocolClientState (socket, current_lobby and game_in_progress as
\* whether they are Some), where the calling thread stands, the operation it
\* is in, the last message it wrote to the socket, and (a history variable)
\* protocol_state as it was when the operation was called.
VARIABLES client_state, client_pc, client_op, written, state_at_request

\* The messages the server has written to the client's socket and the client
\* has not read, and the connection of the server the socket is connected to
\* (0 before the first connect).
VARIABLES inbox, connection

\* What the messages' bodies have put in the GameProtocolClientState
\* (client_id, current_lobby, lobbies, matching_supported_games and
\* game_in_progress) and (a history variable) the message listen handled last.
\* The specifications whose messages are headers only do not follow them.
VARIABLES client_data, read

\* is_listening_async, the threads async_listen has spawned, and (history
\* variables) whether stop_async_listen was the last of the two calls and the
\* reads each thread has begun since.
VARIABLES is_listening_async, async_pc, stopped, late_reads

data_vars == <<client_data, read, is_listening_async, async_pc, stopped, late_reads>>

client_vars == <<client_state, client_pc, client_op, written, state_at_request, inbox,
                 connection, data_vars>>

\* Most threads async_listen is called to spawn.
MaxLoops == 2

\* No message.
NoMessage == [status |-> "-", type |-> "-", body |-> NoBody]

\* The fields of GameProtocolClientState::new that the bodies of messages fill.
\* An Option of a structure: no element, or the one element.
NoneOf == <<>>

SomeOf(x) == <<x>>

DataNew ==
    [client_id |-> "",
     current_lobby |-> NoneOf,
     lobbies |-> <<>>,
     matching_supported_games |-> <<>>,
     game_in_progress |-> NoneOf]

\* GameProtocolClient::new
ClientNew ==
    /\ client_state = [protocol_state |-> "Closed",
                       previous_protocol_state |-> "Closed",
                       next_message_num |-> 0,
                       socket |-> FALSE,
                       current_lobby |-> FALSE,
                       game_in_progress |-> FALSE]
    /\ client_pc = "ready"
    /\ client_op = "none"
    /\ written = <<>>
    /\ state_at_request = "Closed"
    /\ inbox = <<>>
    /\ connection = 0
    /\ client_data = DataNew
    /\ read = NoMessage
    /\ is_listening_async = FALSE
    /\ async_pc = [i \in 1..MaxLoops |-> "unspawned"]
    /\ stopped = FALSE
    /\ late_reads = [i \in 1..MaxLoops |-> 0]

(***************************************************************************)
(* The server.                                                             *)
(***************************************************************************)
\* GameProtocolServerState, the Mutex around it, the connection threads, what
\* the last step wrote to the sockets, and (a history variable) whether the last
\* step gave a lobby another owner.
VARIABLES clients, lobbies, games_in_progress, poisoned, threads, sent, owner_changed

server_vars == <<clients, lobbies, games_in_progress, poisoned, threads, sent, owner_changed>>

vars == <<server_vars, codec_vars, client_vars>>

\* GameProtocolServerState::supported_games once main has registered its games:
\* register_game::<TicTacToe>() inserts the template under its game type id.
supported_games == [g \in {TicTacToeTypeId} |-> TicTacToe_new]

\* A variant of Lobby::is_full that compares with > where the code has >=.
is_full_when_exceeded(lobby) ==
    LET connected_clients == Len(lobby.player_ids)
    IN  connected_clients > lobby.game_metadata.max_players

\* Lobby::is_full
is_full(lobby) ==
    LET connected_clients == Len(lobby.player_ids)
    IN  connected_clients >= lobby.game_metadata.max_players

\* A message written to a socket: the server headers (status code, message type)
\* and the body.
build_server_headers(status_code, message_type) ==
    [status |-> status_code, type |-> message_type, body |-> NoBody]

build_connect_response(status_code, client_id) ==
    [status |-> status_code, type |-> "ConnectResponse", body |-> [client_id |-> client_id]]

build_missing_message_response(missing_message_ids) ==
    [status |-> "MessageSequenceError", type |-> "MissingMessageResponse",
     body |-> [missing_message_ids |-> missing_message_ids]]

build_lobby_list_response(status_code, lobby_list) ==
    [status |-> status_code, type |-> "LobbyListResponse", body |-> [lobbies |-> lobby_list]]

build_supported_game_response(status_code, games) ==
    [status |-> status_code, type |-> "SupportedGamesResponse", body |-> [games |-> games]]

build_lobby_info_response(status_code, lobby) ==
    [status |-> status_code, type |-> "LobbyInfoResponse", body |-> [lobby |-> lobby]]

build_game_state_response(status_code, game_state) ==
    [status |-> status_code, type |-> "GameStateResponse", body |-> [state |-> game_state]]

\* SocketSend::send_message on the socket of connection `to`.
Send(to, message) == [to |-> to] @@ message

\* The same message written to the socket of every client of `ids`, in order.
SendToAll(cl, ids, message) == [i \in 1..Len(ids) |-> Send(cl[ids[i]].socket, message)]

\* What a critical section leaves behind: the three maps, the messages written,
\* whether the thread panicked inside it (which poisons the Mutex) and whether
\* the listening loop was left with break.
Result(cl, lb, gm, out) ==
    [clients |-> cl, lobbies |-> lb, games_in_progress |-> gm, sent |-> out,
     panic |-> FALSE, break |-> FALSE]

Panic(cl, lb, gm, out) == [Result(cl, lb, gm, out) EXCEPT !.panic = TRUE]

\* A variant of the sequence check that runs from expected_id to message_id
\* without wrapping.
MissingMessageIdsNoWrap(max, expected_id, message_id) ==
    RangeInclusive(expected_id, message_id)

\* The sequence check with `max` in the place of u32::MAX: the ids reported
\* missing when message_id is not expected_id.
MissingMessageIdsUpTo(max, expected_id, message_id) ==
    IF message_id > expected_id
    THEN LET diff == message_id - expected_id
         IN  RangeInclusive(expected_id, expected_id + diff)
    ELSE RangeInclusive(expected_id, max) \o RangeInclusive(0, message_id)

\* The sequence check of the server, whose sequence numbers end at U32_MAX.
MissingMessageIds(expected_id, message_id) ==
    MissingMessageIdsUpTo(U32_MAX, expected_id, message_id)

\* ConnectRequest on a connection without a client id.  new_client_id is what the
\* Uuid loop ends with: an id that is no key of clients.  message_id + 1 overflows
\* for u32::MAX: a panic where the build checks overflow, 0 where it does not.
ConnectArm(S, socket, message_id, new_client_id, overflow_checks) ==
    IF message_id = U32_MAX /\ overflow_checks
    THEN Panic(S.clients, S.lobbies, S.games_in_progress, <<>>)
    ELSE LET new_client == [socket |-> socket, id |-> new_client_id, lobby_id |-> None,
                            next_message_id |-> (message_id + 1) % (U32_MAX + 1)]
         IN  Result(MapInsert(S.clients, new_client_id, new_client), S.lobbies,
                    S.games_in_progress,
                    <<Send(socket, build_connect_response("Success", new_client_id))>>)

\* MessageType::LobbyListRequest
LobbyListArm(S, client_id, socket) ==
    LET lobby_list == {S.lobbies[l] : l \in DOMAIN S.lobbies}
    IN  Result(S.clients, S.lobbies, S.games_in_progress,
               <<Send(socket, build_lobby_list_response("Success", lobby_list))>>)

\* MessageType::SupportedGamesRequest
SupportedGamesArm(S, client_id, socket) ==
    Result(S.clients, S.lobbies, S.games_in_progress,
           <<Send(socket, build_supported_game_response("Success", DOMAIN supported_games))>>)

\* A variant of the CreateLobbyRequest arm that looks at the requester's lobby
\* before it looks at the game type.
CreateLobbyArmMembershipFirst(S, client_id, socket, create_lobby_request, new_lobby_id) ==
    LET client == S.clients[client_id]
    IN  IF client.lobby_id # None
        THEN Result(S.clients, S.lobbies, S.games_in_progress,
                    <<Send(socket, build_server_headers("AlreadyInALobby", "ProtocolError"))>>)
        ELSE IF create_lobby_request.game_type_id \in DOMAIN supported_games
        THEN LET new_lobby ==
                     [owner |-> client.id,
                      id |-> new_lobby_id,
                      player_ids |-> <<client.id>>,
                      game_started |-> FALSE,
                      game_metadata |->
                          supported_games[create_lobby_request.game_type_id].metadata]
             IN  Result([S.clients EXCEPT ![client_id].lobby_id = new_lobby_id],
                        MapInsert(S.lobbies, new_lobby_id, new_lobby),
                        S.games_in_progress,
                        <<Send(socket, build_lobby_info_response("Success", new_lobby))>>)
        ELSE Result(S.clients, S.lobbies, S.games_in_progress,
                    <<Send(socket, build_server_headers("UnsupportedGame", "ProtocolError"))>>)

\* MessageType::CreateLobbyRequest.  new_lobby_id is what the Uuid loop ends with.
CreateLobbyArm(S, client_id, socket, create_lobby_request, new_lobby_id) ==
    IF create_lobby_request.game_type_id \in DOMAIN supported_games
    THEN LET client == S.clients[client_id]
         IN  IF client.lobby_id = None
             THEN LET new_lobby ==
                          [owner |-> client.id,
                           id |-> new_lobby_id,
                           player_ids |-> <<client.id>>,
                           game_started |-> FALSE,
                           game_metadata |->
                               supported_games[create_lobby_request.game_type_id].metadata]
                  IN  Result([S.clients EXCEPT ![client_id].lobby_id = new_lobby_id],
                             MapInsert(S.lobbies, new_lobby_id, new_lobby),
                             S.games_in_progress,
                             <<Send(socket, build_lobby_info_response("Success", new_lobby))>>)
             ELSE Result(S.clients, S.lobbies, S.games_in_progress,
                         <<Send(socket, build_server_headers("AlreadyInALobby", "ProtocolError"))>>)
    ELSE Result(S.clients, S.lobbies, S.games_in_progress,
                <<Send(socket, build_server_headers("UnsupportedGame", "ProtocolError"))>>)

\* A variant of the JoinLobbyRequest arm that answers LobbyFull for every full
\* lobby, started or not.
JoinLobbyArmAlwaysLobbyFull(S, client_id, socket, join_request) ==
    LET client == S.clients[client_id]
        Error(status) == Result(S.clients, S.lobbies, S.games_in_progress,
                                <<Send(socket, build_server_headers(status, "ProtocolError"))>>)
    IN  IF client.lobby_id = None
        THEN IF join_request.lobby_id \in DOMAIN S.lobbies
             THEN LET lobby == S.lobbies[join_request.lobby_id]
                  IN  IF ~is_full(lobby)
                      THEN LET joined == [lobby EXCEPT !.player_ids = Append(@, client_id)]
                               cl == [S.clients EXCEPT
                                        ![client_id].lobby_id = join_request.lobby_id]
                               response == build_lobby_info_response("Success", joined)
                           IN  Result(cl,
                                      [S.lobbies EXCEPT ![join_request.lobby_id] = joined],
                                      S.games_in_progress,
                                      SendToAll(cl, joined.player_ids, response))
                      ELSE Error("LobbyFull")
             ELSE Error("LobbyNotFound")
        ELSE Error("AlreadyInALobby")

\* A variant of the JoinLobbyRequest arm that puts the requester in front of
\* the players of the lobby.
JoinLobbyArmInFront(S, client_id, socket, join_request) ==
    LET client == S.clients[client_id]
        Error(status) == Result(S.clients, S.lobbies, S.games_in_progress,
                                <<Send(socket, build_server_headers(status, "ProtocolError"))>>)
    IN  IF client.lobby_id = None
        THEN IF join_request.lobby_id \in DOMAIN S.lobbies
             THEN LET lobby == S.lobbies[join_request.lobby_id]
                  IN  IF ~is_full(lobby)
                      THEN LET joined == [lobby EXCEPT !.player_ids = <<client_id>> \o @]
                               cl == [S.clients EXCEPT
                                        ![client_id].lobby_id = join_request.lobby_id]
                               response == build_lobby_info_response("Success", joined)
                           IN  Result(cl,
                                      [S.lobbies EXCEPT ![join_request.lobby_id] = joined],
                                      S.games_in_progress,
                                      SendToAll(cl, joined.player_ids, response))
                      ELSE IF lobby.game_started
                      THEN Error("GameStarted")
                      ELSE Error("LobbyFull")
             ELSE Error("LobbyNotFound")
        ELSE Error("AlreadyInALobby")

\* MessageType::JoinLobbyRequest
JoinLobbyArm(S, client_id, socket, join_request) ==
    LET client == S.clients[client_id]
        Error(status) == Result(S.clients, S.lobbies, S.games_in_progress,
                                <<Send(socket, build_server_headers(status, "ProtocolError"))>>)
    IN  IF client.lobby_id = None
        THEN IF join_request.lobby_id \in DOMAIN S.lobbies
             THEN LET lobby == S.lobbies[join_request.lobby_id]
                  IN  IF ~is_full(lobby)
                      THEN LET joined == [lobby EXCEPT !.player_ids = Append(@, client_id)]
                               cl == [S.clients EXCEPT
                                        ![client_id].lobby_id = join_request.lobby_id]
                               response == build_lobby_info_response("Success", joined)
                           IN  Result(cl,
                                      [S.lobbies EXCEPT ![join_request.lobby_id] = joined],
                                      S.games_in_progress,
                                      SendToAll(cl, joined.player_ids, response))
                      ELSE IF lobby.game_started
                      THEN Error("GameStarted")
                      ELSE Error("LobbyFull")
             ELSE Error("LobbyNotFound")
        ELSE Error("AlreadyInALobby")

\* MessageType::LobbyInfoRequest
LobbyInfoArm(S, client_id, socket) ==
    LET client == S.clients[client_id]
    IN  IF client.lobby_id # None
        THEN Result(S.clients, S.lobbies, S.games_in_progress,
                    <<Send(socket, build_lobby_info_response("Success",
                                                             S.lobbies[client.lobby_id]))>>)
        ELSE Result(S.clients, S.lobbies, S.games_in_progress,
                    <<Send(socket, build_server_headers("NotInLobby", "ProtocolError"))>>)

\* A variant of the ownership transfer that leaves the owner as it is.
KeepOwner(found_lobby, client_id) == found_lobby

\* "If client is owner, transfer ownership to another client", on a lobby the
\* client has been removed from and that still has a player.
TransferOwnership(found_lobby, client_id) ==
    IF found_lobby.owner = client_id
    THEN [found_lobby EXCEPT !.owner = found_lobby.player_ids[1]]
    ELSE found_lobby

\* A variant of the LeaveLobbyRequest arm that leaves the client's lobby_id as
\* it is.
LeaveLobbyArmKeepsLobbyId(S, client_id, socket) ==
    LET client == S.clients[client_id]
    IN  IF client.lobby_id # None
        THEN LET lobby_id == client.lobby_id
                 found_lobby == S.lobbies[lobby_id]
                 client_position == Position(found_lobby.player_ids, client.id)
                 removed == [found_lobby EXCEPT !.player_ids = RemoveAt(@, client_position)]
                 confirm == Send(socket, build_server_headers("Success", "LeaveLobbyResponse"))
             IN  IF client_position = 0
                 THEN Panic(S.clients, S.lobbies, S.games_in_progress, <<>>)
                 ELSE IF Len(removed.player_ids) = 0
                 THEN Result(S.clients, MapRemove(S.lobbies, lobby_id), S.games_in_progress,
                             <<confirm>>)
                 ELSE LET updated == TransferOwnership(removed, client_id)
                          response == build_lobby_info_response("Success", updated)
                      IN  Result(S.clients, [S.lobbies EXCEPT ![lobby_id] = updated],
                                 S.games_in_progress,
                                 Append(SendToAll(S.clients, updated.player_ids, response),
                                        confirm))
        ELSE Result(S.clients, S.lobbies, S.games_in_progress,
                    <<Send(socket, build_server_headers("NotInLobby", "LeaveLobbyResponse"))>>)

\* MessageType::LeaveLobbyRequest
LeaveLobbyArm(S, client_id, socket) ==
    LET client == S.clients[client_id]
    IN  IF client.lobby_id # None
        THEN LET lobby_id == client.lobby_id
                 found_lobby == S.lobbies[lobby_id]
                 client_position == Position(found_lobby.player_ids, client.id)
                 removed == [found_lobby EXCEPT !.player_ids = RemoveAt(@, client_position)]
                 cl == [S.clients EXCEPT ![client_id].lobby_id = None]
                 confirm == Send(socket, build_server_headers("Success", "LeaveLobbyResponse"))
             IN  IF client_position = 0
                 THEN Panic(S.clients, S.lobbies, S.games_in_progress, <<>>)
                 ELSE IF Len(removed.player_ids) = 0
                 THEN Result(cl, MapRemove(S.lobbies, lobby_id), S.games_in_progress,
                             <<confirm>>)
                 ELSE LET updated == TransferOwnership(removed, client_id)
                          response == build_lobby_info_response("Success", updated)
                      IN  Result(cl, [S.lobbies EXCEPT ![lobby_id] = updated],
                                 S.games_in_progress,
                                 Append(SendToAll(cl, updated.player_ids, response), confirm))
        ELSE Result(S.clients, S.lobbies, S.games_in_progress,
                    <<Send(socket, build_server_headers("NotInLobby", "LeaveLobbyResponse"))>>)

\* A variant of player_req_met that checks the maximum only.
player_req_met_max_only(lobby) ==
    Len(lobby.player_ids) <= lobby.game_metadata.max_players

\* player_req_met of the StartGameRequest arm: the lobby has at least the
\* required and at most the maximum number of players.
player_req_met(lobby) ==
    LET n == Len(lobby.player_ids)
    IN  n >= lobby.game_metadata.min_required_players /\ n <= lobby.game_metadata.max_players

\* A variant of the StartGameRequest arm that keeps the game a lobby already has.
StartGameArmKeepsGame(S, client_id, socket, start_request) ==
    LET client == S.clients[client_id]
    IN  IF client.lobby_id # None
        THEN LET lobby_id == client.lobby_id
                 lobby == S.lobbies[lobby_id]
                 n == Len(lobby.player_ids)
                 AddAll[i \in 0..n] ==
                     IF i = 0
                     THEN init_new(supported_games[get_game_type_id(lobby.game_metadata)])
                     ELSE add_player(AddAll[i - 1], lobby.player_ids[i])
                 new_game == IF lobby_id \in DOMAIN S.games_in_progress
                             THEN S.games_in_progress[lobby_id]
                             ELSE AddAll[n]
                 game_state == build_game_state_response("Success", get_game_state(new_game))
             IN  IF start_request.lobby_id = lobby_id /\ lobby.owner = client_id
                    /\ player_req_met(lobby)
                 THEN Result(S.clients,
                             [S.lobbies EXCEPT ![lobby_id].game_started = TRUE],
                             MapInsert(S.games_in_progress, lobby_id, new_game),
                             SendToAll(S.clients, lobby.player_ids, game_state))
                 ELSE Result(S.clients, S.lobbies, S.games_in_progress,
                             <<Send(socket, build_server_headers("GameStartCriteriaNotMet",
                                                                 "ProtocolError"))>>)
        ELSE Result(S.clients, S.lobbies, S.games_in_progress,
                    <<Send(socket, build_server_headers("NotInLobby", "ProtocolError"))>>)

\* MessageType::StartGameRequest
StartGameArm(S, client_id, socket, start_request) ==
    LET client == S.clients[client_id]
    IN  IF client.lobby_id # None
        THEN LET lobby_id == client.lobby_id
                 lobby == S.lobbies[lobby_id]
                 n == Len(lobby.player_ids)
                 AddAll[i \in 0..n] ==
                     IF i = 0
                     THEN init_new(supported_games[get_game_type_id(lobby.game_metadata)])
                     ELSE add_player(AddAll[i - 1], lobby.player_ids[i])
                 new_game == AddAll[n]
                 game_state == build_game_state_response("Success", get_game_state(new_game))
             IN  IF start_request.lobby_id = lobby_id /\ lobby.owner = client_id
                    /\ player_req_met(lobby)
                 THEN Result(S.clients,
                             [S.lobbies EXCEPT ![lobby_id].game_started = TRUE],
                             MapInsert(S.games_in_progress, lobby_id, new_game),
                             SendToAll(S.clients, lobby.player_ids, game_state))
                 ELSE Result(S.clients, S.lobbies, S.games_in_progress,
                             <<Send(socket, build_server_headers("GameStartCriteriaNotMet",
                                                                 "ProtocolError"))>>)
        ELSE Result(S.clients, S.lobbies, S.games_in_progress,
                    <<Send(socket, build_server_headers("NotInLobby", "ProtocolError"))>>)

\* A variant of the MoveRequest arm that answers the mover only.
MoveArmAnswersMover(S, client_id, socket, client_move) ==
    LET client == S.clients[client_id]
    IN  IF client.lobby_id # None
        THEN LET lobby_id == client.lobby_id
             IN  IF lobby_id \in DOMAIN S.games_in_progress
                 THEN LET game == S.games_in_progress[lobby_id]
                          game_ended == end_condition_met(game)[1]
                      IN  IF ~IndexInBounds(client_move)
                          THEN Panic(S.clients, S.lobbies, S.games_in_progress, <<>>)
                          ELSE LET is_move_valid == is_valid_move(game, client_move)
                               IN  IF is_move_valid /\ ~game_ended
                                   THEN LET moved == apply_move(game, client_move)
                                            game_state == build_game_state_response(
                                                              "Success", get_game_state(moved))
                                        IN  Result(S.clients, S.lobbies,
                                                   [S.games_in_progress EXCEPT ![lobby_id] = moved],
                                                   <<Send(client.socket, game_state)>>)
                                   ELSE IF game_ended
                                   THEN Result(S.clients, S.lobbies, S.games_in_progress,
                                               <<Send(client.socket,
                                                      build_server_headers("GameOver",
                                                                           "ProtocolError"))>>)
                                   ELSE Result(S.clients, S.lobbies, S.games_in_progress, <<>>)
                 ELSE Result(S.clients, S.lobbies, S.games_in_progress,
                             <<Send(socket, build_server_headers("GameSessionNotFound",
                                                                 "ProtocolError"))>>)
        ELSE Result(S.clients, S.lobbies, S.games_in_progress,
                    <<Send(socket, build_server_headers("NotInLobby", "ProtocolError"))>>)

\* MessageType::MoveRequest
MoveArm(S, client_id, socket, client_move) ==
    LET client == S.clients[client_id]
    IN  IF client.lobby_id # None
        THEN LET lobby_id == client.lobby_id
             IN  IF lobby_id \in DOMAIN S.games_in_progress
                 THEN LET game == S.games_in_progress[lobby_id]
                          game_ended == end_condition_met(game)[1]
                      IN  IF ~IndexInBounds(client_move)
                          THEN Panic(S.clients, S.lobbies, S.games_in_progress, <<>>)
                          ELSE LET is_move_valid == is_valid_move(game, client_move)
                               IN  IF is_move_valid /\ ~game_ended
                                   THEN LET moved == apply_move(game, client_move)
                                            game_state == build_game_state_response(
                                                              "Success", get_game_state(moved))
                                        IN  Result(S.clients, S.lobbies,
                                                   [S.games_in_progress EXCEPT ![lobby_id] = moved],
                                                   SendToAll(S.clients,
                                                             S.lobbies[lobby_id].player_ids,
                                                             game_state))
                                   ELSE IF game_ended
                                   THEN Result(S.clients, S.lobbies, S.games_in_progress,
                                               <<Send(client.socket,
                                                      build_server_headers("GameOver",
                                                                           "ProtocolError"))>>)
                                   ELSE IF is_move_valid
                                   THEN Result(S.clients, S.lobbies, S.games_in_progress,
                                               <<Send(client.socket,
                                                      build_server_headers("InvalidMove",
                                                                           "ProtocolError"))>>)
                                   ELSE Result(S.clients, S.lobbies, S.games_in_progress, <<>>)
                 ELSE Result(S.clients, S.lobbies, S.games_in_progress,
                             <<Send(socket, build_server_headers("GameSessionNotFound",
                                                                 "ProtocolError"))>>)
        ELSE Result(S.clients, S.lobbies, S.games_in_progress,
                    <<Send(socket, build_server_headers("NotInLobby", "ProtocolError"))>>)

\* A variant of the ReturnToLobbyRequest arm that leaves game_started as it is.
ReturnToLobbyArmKeepsStarted(S, client_id, socket) ==
    LET client == S.clients[client_id]
    IN  IF client.lobby_id # None
        THEN LET lobby_id == client.lobby_id
             IN  IF lobby_id \in DOMAIN S.games_in_progress
                 THEN LET game == remove_player(S.games_in_progress[lobby_id], client.id)
                          emptied == get_player_num(game) = 0
                          gm == IF emptied
                                THEN MapRemove(S.games_in_progress, lobby_id)
                                ELSE [S.games_in_progress EXCEPT ![lobby_id] = game]
                      IN  Result(S.clients, S.lobbies, gm,
                                 <<Send(client.socket,
                                        build_lobby_info_response("Success",
                                                                  S.lobbies[lobby_id]))>>)
                 ELSE Result(S.clients, S.lobbies, S.games_in_progress,
                             <<Send(socket, build_server_headers("GameSessionNotFound",
                                                                 "ProtocolError"))>>)
        ELSE Result(S.clients, S.lobbies, S.games_in_progress,
                    <<Send(socket, build_server_headers("NotInLobby", "ProtocolError"))>>)

\* MessageType::ReturnToLobbyRequest
ReturnToLobbyArm(S, client_id, socket) ==
    LET client == S.clients[client_id]
    IN  IF client.lobby_id # None
        THEN LET lobby_id == client.lobby_id
             IN  IF lobby_id \in DOMAIN S.games_in_progress
                 THEN LET game == remove_player(S.games_in_progress[lobby_id], client.id)
                          emptied == get_player_num(game) = 0
                          gm == IF emptied
                                THEN MapRemove(S.games_in_progress, lobby_id)
                                ELSE [S.games_in_progress EXCEPT ![lobby_id] = game]
                          lb == IF emptied
                                THEN [S.lobbies EXCEPT ![lobby_id].game_started = FALSE]
                                ELSE S.lobbies
                      IN  Result(S.clients, lb, gm,
                                 <<Send(client.socket,
                                        build_lobby_info_response("Success", lb[lobby_id]))>>)
                 ELSE Result(S.clients, S.lobbies, S.games_in_progress,
                             <<Send(socket, build_server_headers("GameSessionNotFound",
                                                                 "ProtocolError"))>>)
        ELSE Result(S.clients, S.lobbies, S.games_in_progress,
                    <<Send(socket, build_server_headers("NotInLobby", "ProtocolError"))>>)

\* MessageType::Unsupported and every other message type
UnsupportedArm(S, client_id, socket) ==
    Result(S.clients, S.lobbies, S.games_in_progress,
           <<Send(socket, build_server_headers("UnsupportedRequestType", "ProtocolError"))>>)

\* The match on the message type of an in-sequence message of an authenticated client.
MatchMessageType(S, client_id, socket, msg, env) ==
    CASE msg.type = "DisconnectRequest" ->
            [Result(S.clients, S.lobbies, S.games_in_progress,
                    <<Send(socket, build_server_headers("Success", "DisconnectResponse"))>>)
             EXCEPT !.break = TRUE]
      [] msg.type = "LobbyListRequest" -> LobbyListArm(S, client_id, socket)
      [] msg.type = "CreateLobbyRequest" -> CreateLobbyArm(S, client_id, socket, msg.body,
                                                           env.new_lobby_id)
      [] msg.type = "SupportedGamesRequest" -> SupportedGamesArm(S, client_id, socket)
      [] msg.type = "JoinLobbyRequest" -> JoinLobbyArm(S, client_id, socket, msg.body)
      [] msg.type = "LobbyInfoRequest" -> LobbyInfoArm(S, client_id, socket)
      [] msg.type = "LeaveLobbyRequest" -> LeaveLobbyArm(S, client_id, socket)
      [] msg.type = "StartGameRequest" -> StartGameArm(S, client_id, socket, msg.body)
      [] msg.type = "MoveRequest" -> MoveArm(S, client_id, socket, msg.body)
      [] msg.type = "ReturnToLobbyRequest" -> ReturnToLobbyArm(S, client_id, socket)
      [] OTHER -> UnsupportedArm(S, client_id, socket)

\* A variant of the increment that does not wrap at u32::MAX.
IncrementExpectedSaturating(R, client_id) ==
    IF R.panic \/ R.break
    THEN R
    ELSE [R EXCEPT !.clients[client_id].next_message_id = IF @ = U32_MAX THEN @ ELSE @ + 1]

\* A variant of the increment that counts only the requests that were not
\* answered with a ProtocolError.
IncrementExpectedOnSuccess(R, client_id) ==
    IF R.panic \/ R.break \/ \E i \in 1..Len(R.sent) : R.sent[i].type = "ProtocolError"
    THEN R
    ELSE [R EXCEPT !.clients[client_id].next_message_id = IF @ = U32_MAX THEN 0 ELSE @ + 1]

\* "Increment expected message ID" at the end of the loop body, which a panic
\* or a break inside the match never reaches.
IncrementExpected(R, client_id) ==
    IF R.panic \/ R.break
    THEN R
    ELSE [R EXCEPT !.clients[client_id].next_message_id = IF @ = U32_MAX THEN 0 ELSE @ + 1]

\* A variant of the sequence check that takes the received id as the new
\* point to count from.
SequenceGapResync(S, client_id, socket, message_id) ==
    Result([S.clients EXCEPT ![client_id].next_message_id = (message_id + 1) % (U32_MAX + 1)],
           S.lobbies, S.games_in_progress,
           <<Send(socket, build_missing_message_response(
                      MissingMessageIds(S.clients[client_id].next_message_id, message_id)))>>)

\* The sequence check on a message whose id is not the expected one: report
\* the missing ids and continue with the next message.
SequenceGap(S, client_id, socket, message_id) ==
    Result(S.clients, S.lobbies, S.games_in_progress,
           <<Send(socket, build_missing_message_response(
                      MissingMessageIds(S.clients[client_id].next_message_id, message_id)))>>)

\* A variant of the answer to an unauthenticated connection that reports success.
NoActiveSessionArmSuccess(S, socket) ==
    Result(S.clients, S.lobbies, S.games_in_progress,
           <<Send(socket, build_server_headers("Success", "ConnectResponse"))>>)

\* The answer to a message other than ConnectRequest on a connection whose
\* client_id is empty.
NoActiveSessionArm(S, socket) ==
    Result(S.clients, S.lobbies, S.games_in_progress,
           <<Send(socket, build_server_headers("NoActiveSession", "ConnectResponse"))>>)

\* The body of the listening loop for one message of size > 0, inside the lock:
\* the result, and the thread's client_id after it.  env holds what the step takes
\* from outside the message: the ids the Uuid loops end with and whether the
\* build checks arithmetic overflow.
ProcessMessage(S, client_id, socket, msg, env) ==
    LET is_id_empty == client_id = ""
    IN  IF is_id_empty /\ msg.type = "ConnectRequest"
        THEN [result |-> ConnectArm(S, socket, msg.id, env.new_client_id,
                                     env.overflow_checks),
              client_id |-> env.new_client_id]
        ELSE IF is_id_empty
        THEN [result |-> NoActiveSessionArm(S, socket), client_id |-> client_id]
        ELSE LET expected_id == S.clients[client_id].next_message_id
             IN  IF msg.id # expected_id
                 THEN [result |-> SequenceGap(S, client_id, socket, msg.id),
                       client_id |-> client_id]
                 ELSE [result |-> IncrementExpected(
                                      MatchMessageType(S, client_id, socket, msg, env),
                                      client_id),
                       client_id |-> client_id]

\* The clean up after the listening loop, inside the lock, of a thread whose
\* client_id is not empty.
CleanUp(S, client_id) ==
    LET client == S.clients[client_id]
    IN  IF client.lobby_id # None
        THEN LET lobby_id == client.lobby_id
                 found_lobby == S.lobbies[lobby_id]
                 client_position == Position(found_lobby.player_ids, client_id)
                 removed == [found_lobby EXCEPT !.player_ids = RemoveAt(@, client_position)]
                 cl == [S.clients EXCEPT ![client_id].lobby_id = None]
             IN  IF client_position = 0
                 THEN Panic(S.clients, S.lobbies, S.games_in_progress, <<>>)
                 ELSE IF removed.owner = client_id /\ Len(removed.player_ids) = 0
                 THEN \* player_ids[0] of an empty Vec: index out of bounds
                      Panic(cl, [S.lobbies EXCEPT ![lobby_id] = removed],
                            S.games_in_progress, <<>>)
                 ELSE LET updated == TransferOwnership(removed, client_id)
                          out == IF lobby_id \in DOMAIN S.games_in_progress
                                 THEN SendToAll(cl, updated.player_ids,
                                                build_lobby_info_response("Success", updated))
                                 ELSE <<>>
                          lb == IF Len(updated.player_ids) = 0
                                THEN MapRemove(S.lobbies, lobby_id)
                                ELSE [S.lobbies EXCEPT ![lobby_id] = updated]
                      IN  Result(MapRemove(cl, client_id), lb, S.games_in_progress, out)
        ELSE Result(MapRemove(S.clients, client_id), S.lobbies, S.games_in_progress, <<>>)

(***************************************************************************)
(* Inputs.                                                                 *)
(***************************************************************************)
\* Game type ids a CreateLobbyRequest may name: the registered one and one that
\* is not registered.
GameTypeIdInputs == {TicTacToeTypeId, "Chess v1.0"}

\* Moves a MoveRequest may carry: X along the top row, O in the middle row, a
\* move with no symbol, and a move whose index is outside the board.
MoveInputs ==
    {[board_index |-> <<0, 0>>, symbol |-> "X"],
     [board_index |-> <<0, 1>>, symbol |-> "X"],
     [board_index |-> <<0, 2>>, symbol |-> "X"],
     [board_index |-> <<1, 0>>, symbol |-> "O"],
     [board_index |-> <<1, 1>>, symbol |-> "O"],
     [board_index |-> <<1, 1>>, symbol |-> "None"],
     [board_index |-> <<3, 0>>, symbol |-> "X"]}

\* Message types the match has no arm for.
OtherTypeInputs == {"Unsupported", "ConnectResponse"}

Message(message_id, message_type, body) ==
    [id |-> message_id, type |-> message_type, body |-> body]

Env(new_client_id, new_lobby_id, overflow_checks) ==
    [new_client_id |-> new_client_id, new_lobby_id |-> new_lobby_id,
     overflow_checks |-> overflow_checks]

NoEnv == Env("", "", FALSE)

ServerState == [clients |-> clients, lobbies |-> lobbies,
                games_in_progress |-> games_in_progress]

(***************************************************************************)
(* Uuid::new_v4().  The code compares ids for equality only, so two draws  *)
(* that occur nowhere in the state are the same draw: the model takes one  *)
(* such id, and every id that still occurs in the state without being a    *)
(* key of the map the Uuid loop checks.                                    *)
(***************************************************************************)
SeqRange(s) == {s[i] : i \in 1..Len(s)}

\* Client ids that occur in a lobby or in a game.
ClientIdsInUse ==
    UNION {SeqRange(lobbies[l].player_ids) \cup {lobbies[l].owner} : l \in DOMAIN lobbies}
    \cup UNION {SeqRange(games_in_progress[l].players)
                \cup {games_in_progress[l].state.x_player_id,
                      games_in_progress[l].state.o_player_id} : l \in DOMAIN games_in_progress}

\* A variant of the Uuid loop that takes its first draw, colliding or not.
UuidFirstDraw(draws, keys) == draws[1]

\* The Uuid loop: draw an id, and draw again while the id is a key of the map.
\* draws are the ids Uuid::new_v4() returns, in order; the result is the first
\* of them that is no key.
UuidLoop(draws, keys) ==
    draws[CHOOSE i \in 1..Len(draws) :
              draws[i] \notin keys /\ \A j \in 1..(i - 1) : draws[j] \in keys]

\* The runs of draws out of pool that end a Uuid loop over keys within MaxDraws
\* draws: every draw but the last collides.
UuidDraws(pool, keys) ==
    {d \in UNION {[1..n -> pool] : n \in 1..MaxDraws} :
        d[Len(d)] \notin keys /\ \A j \in 1..(Len(d) - 1) : d[j] \in keys}

\* What the Uuid loop of ConnectRequest can end with on connection c: the draws
\* are the id of a registered client, an id left in a lobby or a game, or an id
\* that occurs nowhere.
NewClientIds(c) ==
    LET pool == {ClientIdNames[c]} \cup (ClientIdsInUse \ {""}) \cup DOMAIN clients
    IN  {UuidLoop(d, DOMAIN clients) : d \in UuidDraws(pool, DOMAIN clients)}

\* Lobby ids that occur in the state.
LobbyIdsInUse == DOMAIN lobbies \cup DOMAIN games_in_progress

\* What the Uuid loop of CreateLobbyRequest can end with: the draws are the id
\* of a lobby or of a game, or an id that occurs nowhere.
NewLobbyIds ==
    LET unused == {i \in 1..NumLobbyIds : LobbyIdNames[i] \notin LobbyIdsInUse}
        fresh == IF unused = {} THEN {}
                 ELSE {LobbyIdNames[CHOOSE i \in unused : \A j \in unused : i <= j]}
        pool == fresh \cup LobbyIdsInUse
    IN  {UuidLoop(d, DOMAIN lobbies) : d \in UuidDraws(pool, DOMAIN lobbies)}

(***************************************************************************)
(* Actions.                                                                *)
(***************************************************************************)
\* The server as main starts it, with NumConnections connections accepted and
\* their threads at the top of the listening loop.
Init ==
    /\ clients = EmptyMap
    /\ lobbies = EmptyMap
    /\ games_in_progress = EmptyMap
    /\ poisoned = FALSE
    /\ threads = [c \in Conns |-> [pc |-> "listening", client_id |-> ""]]
    /\ sent = <<>>
    /\ owner_changed = FALSE
    /\ CodecIdle
    /\ ClientNew

\* Whether a lobby of both maps has another owner in `after` than in `before`.
OwnerChanged(before, after) ==
    \E l \in DOMAIN before \cap DOMAIN after : before[l].owner # after[l].owner

\* One iteration of the listening loop of connection c that read msg: take the
\* lock (lock().unwrap() panics on a poisoned Mutex), process the message, and
\* leave the lock by continue, break, the end of the loop body or a panic.
ListenToClient(c, msg, env) ==
    /\ threads[c].pc = "listening"
    /\ UNCHANGED <<codec_vars, client_vars>>
    /\ IF poisoned
       THEN /\ threads' = [threads EXCEPT ![c].pc = "panicked"]
            /\ sent' = <<>>
            /\ owner_changed' = FALSE
            /\ UNCHANGED <<clients, lobbies, games_in_progress, poisoned>>
       ELSE \E P \in {ProcessMessage(ServerState, threads[c].client_id, c, msg, env)} :
            LET R == P.result
            IN  /\ sent' = R.sent
                /\ poisoned' = R.panic
                /\ clients' = R.clients
                /\ lobbies' = R.lobbies
                /\ games_in_progress' = R.games_in_progress
                /\ owner_changed' = OwnerChanged(lobbies, R.lobbies)
                /\ threads' = [threads EXCEPT ![c] =
                                  [pc |-> IF R.panic THEN "panicked"
                                          ELSE IF R.break THEN "cleanup"
                                          ELSE "listening",
                                   client_id |-> IF R.panic THEN @.client_id
                                                 ELSE P.client_id]]

\* Message types a client can put in a header.
RequestTypes ==
    {"ConnectRequest", "DisconnectRequest", "LobbyListRequest", "SupportedGamesRequest",
     "CreateLobbyRequest", "JoinLobbyRequest", "LobbyInfoRequest", "LeaveLobbyRequest",
     "StartGameRequest", "MoveRequest", "ReturnToLobbyRequest"} \cup OtherTypeInputs

\* The bodies a message of a type may carry.
Bodies(message_type) ==
    CASE message_type = "CreateLobbyRequest" ->
            {[game_type_id |-> g] : g \in GameTypeIdInputs}
      [] message_type \in {"JoinLobbyRequest", "StartGameRequest"} ->
            {[lobby_id |-> l] : l \in LobbyIds}
      [] message_type = "MoveRequest" -> MoveInputs
      [] OTHER -> {NoBody}

Listening(c) == threads[c].pc = "listening" /\ ~poisoned
Authenticated(c) == threads[c].client_id # ""
ExpectedId(c) == clients[threads[c].client_id].next_message_id

\* A ConnectRequest on a connection that has no client id.
ConnectRequest(c) ==
    /\ Listening(c) /\ ~Authenticated(c)
    /\ \E message_id \in MessageIds, new_client_id \in NewClientIds(c),
          overflow_checks \in BOOLEAN :
           ListenToClient(c, Message(message_id, "ConnectRequest", NoBody),
                          Env(new_client_id, "", overflow_checks))

\* Any other message on a connection that has no client id.  The body is not
\* parsed on this path.
NoActiveSession(c) ==
    /\ Listening(c) /\ ~Authenticated(c)
    /\ \E message_id \in MessageIds, message_type \in RequestTypes \ {"ConnectRequest"} :
           ListenToClient(c, Message(message_id, message_type, NoBody), NoEnv)

\* A message of an authenticated client whose id is not the expected one.  The
\* body is not parsed on this path.
OutOfSequence(c) ==
    /\ Listening(c) /\ Authenticated(c)
    /\ \E message_id \in MessageIds \ {ExpectedId(c)}, message_type \in RequestTypes :
           ListenToClient(c, Message(message_id, message_type, NoBody), NoEnv)

\* An in-sequence message of an authenticated client: its id is the expected one.
InSequence(c, message_type, body, env) ==
    ListenToClient(c, Message(ExpectedId(c), message_type, body), env)

DisconnectRequest(c) ==
    /\ Listening(c) /\ Authenticated(c)
    /\ InSequence(c, "DisconnectRequest", NoBody, NoEnv)

LobbyListRequest(c) ==
    /\ Listening(c) /\ Authenticated(c)
    /\ InSequence(c, "LobbyListRequest", NoBody, NoEnv)

SupportedGamesRequest(c) ==
    /\ Listening(c) /\ Authenticated(c)
    /\ InSequence(c, "SupportedGamesRequest", NoBody, NoEnv)

CreateLobbyRequest(c) ==
    /\ Listening(c) /\ Authenticated(c)
    /\ \E body \in Bodies("CreateLobbyRequest"), new_lobby_id \in NewLobbyIds :
           InSequence(c, "CreateLobbyRequest", body, Env("", new_lobby_id, FALSE))

JoinLobbyRequest(c) ==
    /\ Listening(c) /\ Authenticated(c)
    /\ \E body \in Bodies("JoinLobbyRequest") :
           InSequence(c, "JoinLobbyRequest", body, NoEnv)

LobbyInfoRequest(c) ==
    /\ Listening(c) /\ Authenticated(c)
    /\ InSequence(c, "LobbyInfoRequest", NoBody, NoEnv)

LeaveLobbyRequest(c) ==
    /\ Listening(c) /\ Authenticated(c)
    /\ InSequence(c, "LeaveLobbyRequest", NoBody, NoEnv)

StartGameRequest(c) ==
    /\ Listening(c) /\ Authenticated(c)
    /\ \E body \in Bodies("StartGameRequest") :
           InSequence(c, "StartGameRequest", body, NoEnv)

MoveRequest(c) ==
    /\ Listening(c) /\ Authenticated(c)
    /\ \E body \in Bodies("MoveRequest") : InSequence(c, "MoveRequest", body, NoEnv)

ReturnToLobbyRequest(c) ==
    /\ Listening(c) /\ Authenticated(c)
    /\ InSequence(c, "ReturnToLobbyRequest", NoBody, NoEnv)

\* A message type the match has no arm of its own for (ConnectRequest included,
\* on a connection that already has a client id).
OtherRequest(c) ==
    /\ Listening(c) /\ Authenticated(c)
    /\ \E message_type \in OtherTypeInputs \cup {"ConnectRequest"} :
           InSequence(c, message_type, NoBody, NoEnv)

\* Any message read while the Mutex is poisoned: lock().unwrap() panics.
LockPoisoned(c) ==
    /\ threads[c].pc = "listening" /\ poisoned
    /\ \E message_type \in RequestTypes :
           ListenToClient(c, Message(0, message_type, NoBody), NoEnv)

\* read returns Ok(0): the peer closed the socket; shut it down and break.
SocketClosed(c) ==
    /\ threads[c].pc = "listening"
    /\ UNCHANGED <<codec_vars, client_vars>>
    /\ threads' = [threads EXCEPT ![c].pc = "cleanup"]
    /\ sent' = <<>>
    /\ owner_changed' = FALSE
    /\ UNCHANGED <<clients, lobbies, games_in_progress, poisoned>>

\* read returns Err(e): the error is printed inside the loop.
ReadError(c) ==
    /\ threads[c].pc = "listening"
    /\ UNCHANGED <<codec_vars, client_vars>>
    /\ threads' = [threads EXCEPT ![c].pc = "read_error"]
    /\ sent' = <<>>
    /\ owner_changed' = FALSE
    /\ UNCHANGED <<clients, lobbies, games_in_progress, poisoned>>

\* The end of the loop body after the Err(e) arm: the loop has no exit there,
\* the thread is back at the read.
ReadAgain(c) ==
    /\ threads[c].pc = "read_error"
    /\ UNCHANGED <<codec_vars, client_vars>>
    /\ threads' = [threads EXCEPT ![c].pc = "listening"]
    /\ sent' = <<>>
    /\ owner_changed' = FALSE
    /\ UNCHANGED <<clients, lobbies, games_in_progress, poisoned>>

\* build_server_error_response
build_server_error_response(e) ==
    CASE e = "ChecksumError" -> build_server_headers("DataIntegrityError", "ProtocolError")
      [] e = "BodySizeError" -> build_server_headers("DataIntegrityError", "ProtocolError")
      [] e = "BytesToStringError" -> build_server_headers("DataParseError", "ProtocolError")
      [] e = "DeserializeError" -> build_server_headers("MalformedBody", "ProtocolError")

\* Bodies that do not decode: a checksum that is not the payload's, a declared
\* length beyond the bytes that follow, a continuation byte without its lead
\* byte, and a text that does not deserialize.
UndecodableFrames ==
    {to_be_bytes(1) \o to_be_bytes((crc32fast_hash(<<1>>) + 1) % (CodecU32Max + 1)) \o <<1>>,
     to_be_bytes(CodecU32Max) \o to_be_bytes(crc32fast_hash(<<1>>)) \o <<1>>,
     to_be_bytes(1) \o to_be_bytes(crc32fast_hash(<<2>>)) \o <<2>>,
     build_message_body(Some(<<0>>))}

\* Whether the arm of message_type parses the body for the client of c: the
\* arms of CreateLobbyRequest, StartGameRequest and MoveRequest start with it,
\* the arm of JoinLobbyRequest parses once the client is known to be in no lobby.
ParsesBody(c, message_type) ==
    \/ message_type \in {"CreateLobbyRequest", "StartGameRequest", "MoveRequest"}
    \/ /\ message_type = "JoinLobbyRequest"
       /\ clients[threads[c].client_id].lobby_id = None

\* An in-sequence request whose body does not decode: the arm's call of the
\* request parser panics inside the lock.
UndecodableBodyOf(c, message_type, remainder) ==
    /\ ParsesBody(c, message_type)
    /\ parse_request(remainder).kind = "panic"
    /\ threads' = [threads EXCEPT ![c].pc = "panicked"]
    /\ poisoned' = TRUE
    /\ sent' = <<>>
    /\ owner_changed' = FALSE
    /\ UNCHANGED <<clients, lobbies, games_in_progress, codec_vars, client_vars>>

UndecodableBody(c) ==
    /\ Listening(c) /\ Authenticated(c)
    /\ \E message_type \in {"CreateLobbyRequest", "JoinLobbyRequest", "StartGameRequest",
                            "MoveRequest"},
          remainder \in UndecodableFrames :
           UndecodableBodyOf(c, message_type, remainder)

\* The clean up after the loop: nothing for a thread without a client id,
\* otherwise a critical section of its own.
CleanUpClient(c) ==
    /\ threads[c].pc = "cleanup"
    /\ UNCHANGED <<codec_vars, client_vars>>
    /\ IF threads[c].client_id = ""
       THEN /\ threads' = [threads EXCEPT ![c].pc = "exited"]
            /\ sent' = <<>>
            /\ owner_changed' = FALSE
            /\ UNCHANGED <<clients, lobbies, games_in_progress, poisoned>>
       ELSE IF poisoned
       THEN /\ threads' = [threads EXCEPT ![c].pc = "panicked"]
            /\ sent' = <<>>
            /\ owner_changed' = FALSE
            /\ UNCHANGED <<clients, lobbies, games_in_progress, poisoned>>
       ELSE \E R \in {CleanUp(ServerState, threads[c].client_id)} :
                /\ clients' = R.clients
                /\ lobbies' = R.lobbies
                /\ games_in_progress' = R.games_in_progress
                /\ poisoned' = R.panic
                /\ sent' = R.sent
                /\ owner_changed' = OwnerChanged(lobbies, R.lobbies)
                /\ threads' = [threads EXCEPT ![c].pc =
                                  IF R.panic THEN "panicked" ELSE "exited"]

\* Every step a connection thread can take.
Step(c) ==
    \/ ConnectRequest(c)
    \/ NoActiveSession(c)
    \/ OutOfSequence(c)
    \/ DisconnectRequest(c)
    \/ LobbyListRequest(c)
    \/ SupportedGamesRequest(c)
    \/ CreateLobbyRequest(c)
    \/ JoinLobbyRequest(c)
    \/ LobbyInfoRequest(c)
    \/ LeaveLobbyRequest(c)
    \/ StartGameRequest(c)
    \/ MoveRequest(c)
    \/ ReturnToLobbyRequest(c)
    \/ OtherRequest(c)
    \/ UndecodableBody(c)
    \/ LockPoisoned(c)
    \/ SocketClosed(c)
    \/ ReadError(c)
    \/ ReadAgain(c)
    \/ CleanUpClient(c)

Next == \E c \in Conns : Step(c)

\* The server with every connection sending any message at any time.
Spec == Init /\ [][Next]_vars

\* Clients that connect, create, join and leave lobbies, ask for the lobby list
\* and disconnect or close their sockets.
LobbyStep(c) ==
    \/ ConnectRequest(c)
    \/ DisconnectRequest(c)
    \/ LobbyListRequest(c)
    \/ CreateLobbyRequest(c)
    \/ JoinLobbyRequest(c)
    \/ LeaveLobbyRequest(c)
    \/ LockPoisoned(c)
    \/ SocketClosed(c)
    \/ CleanUpClient(c)

NextLobby == \E c \in Conns : LobbyStep(c)

SpecLobby == Init /\ [][NextLobby]_vars

\* Clients that connect, create and join lobbies and ask to start games.
StartStep(c) ==
    \/ ConnectRequest(c)
    \/ CreateLobbyRequest(c)
    \/ JoinLobbyRequest(c)
    \/ StartGameRequest(c)
    \/ LockPoisoned(c)

NextStart == \E c \in Conns : StartStep(c)

SpecStart == Init /\ [][NextStart]_vars

\* Two clients that get into one lobby, start its game, move and return to the
\* lobby.
GameStep(c) ==
    \/ ConnectRequest(c)
    \/ CreateLobbyRequest(c)
    \/ JoinLobbyRequest(c)
    \/ StartGameRequest(c)
    \/ MoveRequest(c)
    \/ ReturnToLobbyRequest(c)
    \/ LockPoisoned(c)

NextGame == \E c \in GameConns : GameStep(c)

SpecGame == Init /\ [][NextGame]_vars

\* Two connections whose messages arrive with any sequence number.
SequenceStep(c) ==
    \/ ConnectRequest(c)
    \/ NoActiveSession(c)
    \/ OutOfSequence(c)
    \/ LobbyListRequest(c)
    \/ DisconnectRequest(c)
    \/ LockPoisoned(c)
    \/ CleanUpClient(c)

NextSequence == \E c \in GameConns : SequenceStep(c)

SpecSequence == Init /\ [][NextSequence]_vars

(***************************************************************************)
(* Properties.                                                             *)
(***************************************************************************)
\* The last step wrote exactly one message, to connection c, a ProtocolError
\* with the given status.
OnlyProtocolError(out, c, status) ==
    out = <<Send(c, build_server_headers(status, "ProtocolError"))>>

\* Connection c is about to clean up for a client that owns its lobby and is
\* the only player of it, with the Mutex in order.
SoleOwnerDisconnects(c) ==
    LET id == threads[c].client_id
    IN  /\ threads[c].pc = "cleanup"
        /\ ~poisoned
        /\ id \in DOMAIN clients
        /\ clients[id].lobby_id # None
        /\ lobbies[clients[id].lobby_id].owner = id
        /\ lobbies[clients[id].lobby_id].player_ids = <<id>>

\* The clients whose threads have left the listening loop and the clean up.
GoneClients == {threads[c].client_id : c \in {d \in Conns : threads[d].pc = "exited"}}

\* C1: when a client that owns lobby L and is its only player disconnects, the
\* clean up deletes L and the client's record, and a lobby list sent afterwards
\* lists no lobby of a client that is gone.
C1_DisconnectDeletesLobby ==
    [][/\ \A c \in Conns :
            SoleOwnerDisconnects(c) /\ threads'[c].pc # "cleanup"
            => /\ clients[threads[c].client_id].lobby_id \notin DOMAIN lobbies'
               /\ threads[c].client_id \notin DOMAIN clients'
       /\ \A i \in 1..Len(sent') :
            sent'[i].type = "LobbyListResponse"
            => \A lobby \in sent'[i].body.lobbies : lobby.owner \notin GoneClients']_vars

\* The state the clean up of a sole owner leaves: its thread has panicked, the
\* Mutex is poisoned, and the lobby is still in the map, without players.
C1_Witness ==
    \E c \in Conns :
        /\ threads[c].pc = "panicked"
        /\ poisoned
        /\ threads[c].client_id \in DOMAIN clients
        /\ \E l \in DOMAIN lobbies :
               lobbies[l].owner = threads[c].client_id /\ lobbies[l].player_ids = <<>>

\* C2: no lobby ever has more players than its game allows, whatever the
\* interleaving of create, join, leave and disconnect.
C2_LobbyNeverOverfull ==
    \A l \in DOMAIN lobbies :
        Len(lobbies[l].player_ids) <= lobbies[l].game_metadata.max_players

\* A lobby with every slot taken, and a join just turned down with LobbyFull:
\* of the clients that wanted the last slot, one got in.
C2_Witness ==
    /\ \E l \in DOMAIN lobbies :
           Len(lobbies[l].player_ids) = lobbies[l].game_metadata.max_players
    /\ \E i \in 1..Len(sent) : sent[i].status = "LobbyFull"

\* C3: the owner of every lobby that has players is one of its players,
\* also right after the owner left or disconnected.
C3_OwnerIsAPlayer ==
    \A l \in DOMAIN lobbies :
        lobbies[l].player_ids # <<>> => Contains(lobbies[l].player_ids, lobbies[l].owner)

\* The last step took the owner out of a lobby that still has players, and
\* gave the lobby another owner.
C3_Witness ==
    /\ owner_changed
    /\ \E l \in DOMAIN lobbies : lobbies[l].player_ids # <<>>

\* C4: the lobby map never holds a lobby without players.
C4_NoEmptyLobby ==
    \A l \in DOMAIN lobbies : lobbies[l].player_ids # <<>>

\* A leave by the last player of a lobby took the lobby out of the map.
C4_Witness ==
    /\ lobbies = EmptyMap
    /\ \E i \in 1..Len(sent) : sent[i].type = "LeaveLobbyResponse" /\ sent[i].status = "Success"

\* Connection c, in order, holds a client that is in a lobby with a live game.
InLiveGame(c) ==
    /\ Listening(c) /\ Authenticated(c)
    /\ clients[threads[c].client_id].lobby_id \in DOMAIN games_in_progress

\* The live game of the lobby of the client of connection c.
GameOf(c) == games_in_progress[clients[threads[c].client_id].lobby_id]

\* C5: a MoveRequest the game module judges invalid, from a client in a lobby
\* with a live game that has not ended, is answered with ProtocolError(InvalidMove)
\* to the requester alone, and leaves the game as it is.
C5_InvalidMoveRejected ==
    [][\A c \in GameConns, client_move \in {mv \in MoveInputs : IndexInBounds(mv)} :
          /\ InLiveGame(c)
          /\ ~end_condition_met(GameOf(c))[1]
          /\ ~is_valid_move(GameOf(c), client_move)
          /\ InSequence(c, "MoveRequest", client_move, NoEnv)
          => /\ OnlyProtocolError(sent', c, "InvalidMove")
             /\ games_in_progress' = games_in_progress]_vars

\* C6: once the end condition of a live game holds, every MoveRequest for it is
\* answered with ProtocolError(GameOver) to the requester alone and leaves the
\* game as it is, whatever the move.
C6_MoveAfterEndRejected ==
    [][\A c \in GameConns, client_move \in MoveInputs :
          /\ InLiveGame(c)
          /\ end_condition_met(GameOf(c))[1]
          /\ InSequence(c, "MoveRequest", client_move, NoEnv)
          => /\ OnlyProtocolError(sent', c, "GameOver")
             /\ games_in_progress' = games_in_progress]_vars

\* A live game whose end condition holds while the Mutex is poisoned: the state
\* a MoveRequest with an index outside the board leaves.
C6_Witness ==
    /\ poisoned
    /\ \E l \in DOMAIN games_in_progress : end_condition_met(games_in_progress[l])[1]

\* What a StartGameRequest for requested_lobby_id asks of the lobby of the requester.
StartCriteria(id, requested_lobby_id) ==
    LET lobby == lobbies[clients[id].lobby_id]
    IN  /\ lobby.owner = id
        /\ requested_lobby_id = clients[id].lobby_id
        /\ lobby.game_metadata.min_required_players <= Len(lobby.player_ids)
        /\ Len(lobby.player_ids) <= lobby.game_metadata.max_players

\* C7: a StartGameRequest of a client in a lobby starts a game exactly if the
\* requester owns the lobby, names it, and the lobby has between the required
\* and the maximum number of players; otherwise the answer is
\* ProtocolError(GameStartCriteriaNotMet) (NotInLobby without a lobby), and
\* the lobbies and the games stay as they are.
C7_StartGameCriteria ==
    [][\A c \in Conns, l \in LobbyIds :
          /\ Listening(c) /\ Authenticated(c)
          /\ InSequence(c, "StartGameRequest", [lobby_id |-> l], NoEnv)
          => LET id == threads[c].client_id
                 own == clients[id].lobby_id
             IN  IF own = None
                 THEN /\ OnlyProtocolError(sent', c, "NotInLobby")
                      /\ lobbies' = lobbies
                      /\ games_in_progress' = games_in_progress
                 ELSE IF StartCriteria(id, l)
                 THEN /\ own \in DOMAIN games_in_progress'
                      /\ games_in_progress'[own].players = lobbies[own].player_ids
                      /\ lobbies'[own].game_started
                 ELSE /\ OnlyProtocolError(sent', c, "GameStartCriteriaNotMet")
                      /\ lobbies' = lobbies
                      /\ games_in_progress' = games_in_progress]_vars

\* A game was just started: its lobby is marked started and every player of
\* the lobby was sent the state of the new game.
C7_Witness ==
    \E l \in DOMAIN games_in_progress :
        /\ lobbies[l].game_started
        /\ Len(sent) = Len(lobbies[l].player_ids)
        /\ \A i \in 1..Len(sent) : sent[i].type = "GameStateResponse"

\* Connection c, in order, holds a client, and lobby l exists and is full.
JoinsFullLobby(c, l) ==
    /\ Listening(c) /\ Authenticated(c)
    /\ l \in DOMAIN lobbies
    /\ Len(lobbies[l].player_ids) >= lobbies[l].game_metadata.max_players

\* What C8 says of a step that handles a JoinLobbyRequest of c for the full lobby l.
FullLobbyRejects(c, l) ==
    /\ OnlyProtocolError(sent', c, IF lobbies[l].game_started THEN "GameStarted"
                                   ELSE "LobbyFull")
    /\ lobbies'[l].player_ids = lobbies[l].player_ids
    /\ clients'[threads[c].client_id].lobby_id = clients[threads[c].client_id].lobby_id

\* C8 as stated: a JoinLobbyRequest for an existing full lobby is answered with
\* ProtocolError(LobbyFull) if the game has not started and
\* ProtocolError(GameStarted) if it has, and changes neither the players of
\* the lobby nor the lobby_id of the requester.
C8_FullLobbyRejects ==
    [][\A c \in Conns, l \in LobbyIds :
          /\ JoinsFullLobby(c, l)
          /\ InSequence(c, "JoinLobbyRequest", [lobby_id |-> l], NoEnv)
          => FullLobbyRejects(c, l)]_vars

\* C8, amended: the same for a JoinLobbyRequest of a client that is in no lobby.
C8_FullLobbyRejectsOutsider ==
    [][\A c \in Conns, l \in LobbyIds :
          /\ JoinsFullLobby(c, l)
          /\ clients[threads[c].client_id].lobby_id = None
          /\ InSequence(c, "JoinLobbyRequest", [lobby_id |-> l], NoEnv)
          => FullLobbyRejects(c, l)]_vars

\* A client that is in no lobby was just answered with GameStarted, by a lobby
\* that is full.
C8_Witness ==
    \E c \in Conns :
        /\ OnlyProtocolError(sent, c, "GameStarted")
        /\ clients[threads[c].client_id].lobby_id = None
        /\ \E l \in DOMAIN lobbies : lobbies[l].game_started /\ is_full(lobbies[l])

\* C9: a CreateLobbyRequest for a game type that is not registered is answered
\* with ProtocolError(UnsupportedGame) alone, adds no lobby and leaves the
\* lobby_id of the requester as it is, whether or not the requester is in a lobby.
C9_UnsupportedGameRejected ==
    [][\A c \in Conns, g \in GameTypeIdInputs \ {TicTacToeTypeId}, l \in NewLobbyIds :
          /\ Listening(c) /\ Authenticated(c)
          /\ InSequence(c, "CreateLobbyRequest", [game_type_id |-> g], Env("", l, FALSE))
          => /\ OnlyProtocolError(sent', c, "UnsupportedGame")
             /\ lobbies' = lobbies
             /\ clients'[threads[c].client_id].lobby_id
                    = clients[threads[c].client_id].lobby_id]_vars

\* A client that is in a lobby was just answered with UnsupportedGame.
C9_Witness ==
    \E c \in Conns :
        /\ OnlyProtocolError(sent, c, "UnsupportedGame")
        /\ threads[c].client_id \in DOMAIN clients
        /\ clients[threads[c].client_id].lobby_id # None

\* The cyclic interval from e to r of the numbers 0..max, in order.
CyclicInterval(max, e, r) ==
    [i \in 1..(((r - e) % (max + 1)) + 1) |-> (e + i - 1) % (max + 1)]

\* C10: a message of an authenticated client with a sequence number r other
\* than the expected e is answered with a MissingMessageResponse that lists the
\* cyclic interval from e to r in order: e..r for r > e (5 and 8 give 5,6,7,8),
\* and e..u32::MAX, 0..r for r < e (u32::MAX-1 and 1 give u32::MAX-1, u32::MAX, 0, 1).
C10_MissingIdsCyclicInterval ==
    /\ \A e \in 0..WideU32Max, r \in 0..WideU32Max :
           e # r => MissingMessageIdsUpTo(WideU32Max, e, r) = CyclicInterval(WideU32Max, e, r)
    /\ MissingMessageIdsUpTo(WideU32Max, 5, 8) = <<5, 6, 7, 8>>
    /\ MissingMessageIdsUpTo(WideU32Max, WideU32Max - 1, 1)
           = <<WideU32Max - 1, WideU32Max, 0, 1>>
    /\ [][\A c \in GameConns, r \in MessageIds, message_type \in RequestTypes :
             /\ Listening(c) /\ Authenticated(c)
             /\ r # ExpectedId(c)
             /\ \E body \in Bodies(message_type) :
                    ListenToClient(c, Message(r, message_type, body), NoEnv)
             => sent' = <<Send(c, [status |-> "MessageSequenceError",
                                   type |-> "MissingMessageResponse",
                                   body |-> [missing_message_ids |->
                                                CyclicInterval(U32_MAX, ExpectedId(c), r)]])>>]_vars

\* A MissingMessageResponse was just sent that wraps: it runs from
\* u32::MAX-1 through u32::MAX and 0 to 1.
C10_Witness ==
    \E i \in 1..Len(sent) :
        /\ sent[i].type = "MissingMessageResponse"
        /\ sent[i].body.missing_message_ids = <<U32_MAX - 1, U32_MAX, 0, 1>>

\* Two clients that get into a lobby and start its game, with messages that
\* arrive out of sequence in between.
GapStep(c) ==
    \/ ConnectRequest(c)
    \/ CreateLobbyRequest(c)
    \/ JoinLobbyRequest(c)
    \/ StartGameRequest(c)
    \/ OutOfSequence(c)
    \/ LockPoisoned(c)

NextGap == \E c \in GameConns : GapStep(c)

SpecGap == Init /\ [][NextGap]_vars

\* C11: a message of an authenticated client whose sequence number is not the
\* expected one is not dispatched: the step sends one MissingMessageResponse,
\* to the sender, and leaves the clients (the expected sequence number of the
\* sender included), the lobbies and the games as they are.
C11_OutOfSequenceNotDispatched ==
    [][\A c \in GameConns :
          \/ /\ Len(sent') = 1
             /\ sent'[1].to = c
             /\ sent'[1].type = "MissingMessageResponse"
             /\ clients' = clients
             /\ lobbies' = lobbies
             /\ games_in_progress' = games_in_progress
          \/ ~ /\ Listening(c) /\ Authenticated(c)
               /\ \E r \in MessageIds \ {ExpectedId(c)}, message_type \in RequestTypes :
                      ListenToClient(c, Message(r, message_type, NoBody), NoEnv)]_vars

\* A MissingMessageResponse was just sent to a client that is in a lobby with
\* a live game.
C11_Witness ==
    \E c \in GameConns :
        /\ Len(sent) = 1
        /\ sent[1].to = c
        /\ sent[1].type = "MissingMessageResponse"
        /\ threads[c].client_id \in DOMAIN clients
        /\ clients[threads[c].client_id].lobby_id \in DOMAIN games_in_progress

\* C12: a successful ConnectRequest registers the client under an id that no
\* registered client has, and a created lobby gets an id that no lobby has; the
\* records already there stay as they are, and the requester is sent the
\* success response, not an error.
C12_NewIdsCollideWithNone ==
    [][/\ \A c \in Conns :
            threads[c].client_id = "" /\ threads'[c].client_id # ""
            => LET id == threads'[c].client_id
               IN  /\ id \notin DOMAIN clients
                   /\ DOMAIN clients' = DOMAIN clients \cup {id}
                   /\ \A k \in DOMAIN clients : clients'[k] = clients[k]
                   /\ sent' = <<Send(c, build_connect_response("Success", id))>>
       /\ \A c \in Conns :
            LET id == threads[c].client_id
            IN  /\ id \in DOMAIN clients /\ id \in DOMAIN clients'
                /\ clients[id].lobby_id = None /\ clients'[id].lobby_id # None
                /\ lobbies'[clients'[id].lobby_id].player_ids = <<id>>
                => LET l == clients'[id].lobby_id
                   IN  /\ l \notin DOMAIN lobbies
                       /\ DOMAIN lobbies' = DOMAIN lobbies \cup {l}
                       /\ \A k \in DOMAIN lobbies : lobbies'[k] = lobbies[k]
                       /\ sent' = <<Send(c, build_lobby_info_response("Success",
                                                                       lobbies'[l]))>>]_vars

\* A client was just registered next to two others, while a lobby exists:
\* its Uuid loop had three ids to collide with.
C12_Witness ==
    /\ Cardinality(DOMAIN clients) = NumConnections
    /\ DOMAIN lobbies # {}
    /\ \E c \in Conns : sent = <<Send(c, build_connect_response("Success", threads[c].client_id))>>

\* Unauthenticated connections next to lobbies and games being set up.
GateStep(c) ==
    \/ ConnectRequest(c)
    \/ CreateLobbyRequest(c)
    \/ JoinLobbyRequest(c)
    \/ StartGameRequest(c)
    \/ NoActiveSession(c)
    \/ LockPoisoned(c)

NextGate == \E c \in Conns : GateStep(c)

SpecGate == Init /\ [][NextGate]_vars

\* C13: on a connection that has not authenticated, a message of any type but
\* ConnectRequest, whatever its id, is answered with status NoActiveSession and
\* nothing else happens: no client record is created, no lobby and no game
\* changes, and the connection stays unauthenticated.
C13_UnauthenticatedGate ==
    [][\A c \in Conns :
          \/ /\ sent' = <<Send(c, build_server_headers("NoActiveSession", "ConnectResponse"))>>
             /\ clients' = clients
             /\ lobbies' = lobbies
             /\ games_in_progress' = games_in_progress
             /\ ~Authenticated(c)'
          \/ ~ /\ Listening(c) /\ ~Authenticated(c)
               /\ \E message_id \in MessageIds,
                     message_type \in RequestTypes \ {"ConnectRequest"} :
                      ListenToClient(c, Message(message_id, message_type, NoBody), NoEnv)]_vars

\* An unauthenticated connection was just answered NoActiveSession while
\* another connection's client sits in a lobby whose game has started.
C13_Witness ==
    \E c \in Conns :
        /\ threads[c].client_id = ""
        /\ sent = <<Send(c, build_server_headers("NoActiveSession", "ConnectResponse"))>>
        /\ DOMAIN clients # {}
        /\ DOMAIN games_in_progress # {}

\* Two connections whose clients get into lobbies and whose sockets fail or
\* close.
ReadStep(c) ==
    \/ ConnectRequest(c)
    \/ CreateLobbyRequest(c)
    \/ JoinLobbyRequest(c)
    \/ ReadError(c)
    \/ ReadAgain(c)
    \/ SocketClosed(c)
    \/ CleanUpClient(c)
    \/ LockPoisoned(c)

NextRead == \E c \in GameConns : ReadStep(c)

\* A thread that is not blocked in a read goes on: out of the Err(e) arm back to
\* the read, and from the end of the loop through the clean up.  What arrives on
\* a socket, and when, is up to the peer.
SpecRead ==
    /\ Init
    /\ [][NextRead]_vars
    /\ \A c \in GameConns : WF_vars(ReadAgain(c)) /\ WF_vars(CleanUpClient(c))

\* C14: when a read on the socket of a registered client returns an error, the
\* client is eventually removed from the client map and is then in no lobby's
\* player list.  Runs in which a panic poisons the lock are set aside: they
\* end the clean up for another reason.
C14_ReadErrorCleansUp ==
    \A c \in GameConns :
        (threads[c].pc = "read_error" /\ threads[c].client_id \in DOMAIN clients)
        ~> \/ /\ threads[c].client_id \notin DOMAIN clients
              /\ \A l \in DOMAIN lobbies :
                     ~Contains(lobbies[l].player_ids, threads[c].client_id)
           \/ poisoned

\* A read on the socket of a client that is in a lobby with another player has
\* returned an error.
C14_Witness ==
    \E c \in GameConns :
        /\ threads[c].pc = "read_error"
        /\ threads[c].client_id \in DOMAIN clients
        /\ \E l \in DOMAIN lobbies :
               /\ Contains(lobbies[l].player_ids, threads[c].client_id)
               /\ Len(lobbies[l].player_ids) = 2

\* C15: once the handler of a connection has ended, by leaving through the
\* clean up or by a panic, the lock of the shared state is free and usable by
\* the handlers of the other connections: it is not poisoned.
C15_SharedStateStaysUsable ==
    (\E c \in Conns : threads[c].pc \in {"exited", "panicked"}) => ~poisoned

\* The handler of one connection has ended by a panic inside the lock while
\* the registered client of another connection is still being listened to;
\* the next message of that client finds the lock poisoned.
C15_Witness ==
    \E c, d \in Conns :
        /\ threads[c].pc = "panicked"
        /\ threads[d].pc = "listening"
        /\ threads[d].client_id \in DOMAIN clients
        /\ poisoned
        /\ ENABLED LockPoisoned(d)

(***************************************************************************)
(* The wire codec on its own: bodies that are built and parsed back, and   *)
(* frames that arrive from a socket.                                       *)
(***************************************************************************)
\* Payload strings: every string of up to MaxPayload characters, and strings
\* of u32::MAX bytes and of one byte more.
StringInputs ==
    UNION {[1..n -> Chars] : n \in 0..MaxPayload}
        \cup {[i \in 1..n |-> 0] : n \in {CodecU32Max, CodecU32Max + 1}}

\* Arguments of build_message_body.
BodyInputs == {NoneBody} \cup {Some(str) : str \in StringInputs}

\* Received frames: every byte sequence of up to two u32 fields and MaxPayload
\* bytes.
FrameInputs == UNION {[1..n -> Bytes] : n \in 0..(2 * SizeOfU32 + MaxPayload)}

InitCodec ==
    /\ clients = EmptyMap
    /\ lobbies = EmptyMap
    /\ games_in_progress = EmptyMap
    /\ poisoned = FALSE
    /\ threads = [c \in Conns |-> [pc |-> "listening", client_id |-> ""]]
    /\ sent = <<>>
    /\ owner_changed = FALSE
    /\ ClientNew
    /\ HeaderIdle
    /\ parse_result = Ok(<<>>)
    /\ \/ /\ codec_pc = "build"
          /\ message_body \in BodyInputs
          /\ raw_message = <<>>
       \/ /\ codec_pc = "received"
          /\ message_body = NoneBody
          /\ raw_message \in FrameInputs

\* The sender builds the body of its message.
BuildMessageBody ==
    /\ codec_pc = "build"
    /\ raw_message' = build_message_body(message_body)
    /\ codec_pc' = "built"
    /\ UNCHANGED <<message_body, parse_result, server_vars, client_vars, header_vars>>

\* The receiver parses the bytes the sender built.
ParseBuilt ==
    /\ codec_pc = "built"
    /\ parse_result' = parse_message_payload(raw_message)
    /\ codec_pc' = "round_trip"
    /\ UNCHANGED <<message_body, raw_message, server_vars, client_vars, header_vars>>

\* The receiver parses bytes that arrived from a socket.
ParseReceived ==
    /\ codec_pc = "received"
    /\ parse_result' = parse_message_payload(raw_message)
    /\ codec_pc' = "parsed"
    /\ UNCHANGED <<message_body, raw_message, server_vars, client_vars, header_vars>>

NextCodec == BuildMessageBody \/ ParseBuilt \/ ParseReceived

SpecCodec == InitCodec /\ [][NextCodec]_vars

\* C17 as stated: for every payload string p, parsing the bytes built for
\* Some(p) returns Ok(p), and parsing the bytes built for None returns Ok of
\* the empty string.
C17_RoundTrip ==
    codec_pc = "round_trip"
    => parse_result = Ok(IF message_body.some THEN message_body.str ELSE <<>>)

\* C17: for every payload string p of at most u32::MAX bytes, parsing the
\* bytes built for Some(p) returns Ok(p), and parsing the bytes built for None
\* returns Ok of the empty string.
C17_RoundTripWithinU32 ==
    /\ codec_pc = "round_trip"
    /\ message_body.some => Len(as_bytes(message_body.str)) <= CodecU32Max
    => parse_result = Ok(IF message_body.some THEN message_body.str ELSE <<>>)

\* A string with a two-byte character has been built into bytes and parsed
\* back.
C17_Witness ==
    /\ codec_pc = "round_trip"
    /\ message_body.some
    /\ \E i \in 1..Len(message_body.str) : message_body.str[i] = 2
    /\ raw_message # <<>>
    /\ parse_result.kind = "Ok"

\* The frame declares L > 0 bytes, holds its checksum and at least L bytes
\* after it, and the checksum is not that of the L bytes.
ChecksumCorrupted(frame) ==
    /\ Len(frame) >= 2 * SizeOfU32
    /\ LET L == from_be_bytes(SubSeq(frame, 1, SizeOfU32))
       IN  /\ L > 0
           /\ Len(frame) >= 2 * SizeOfU32 + L
           /\ from_be_bytes(SubSeq(frame, SizeOfU32 + 1, 2 * SizeOfU32))
                  # crc32fast_hash(SubSeq(frame, 2 * SizeOfU32 + 1, 2 * SizeOfU32 + L))

\* C18: for every frame that declares L > 0 bytes and whose checksum differs
\* from the checksum of its L payload bytes, parse_message_payload returns
\* ChecksumError and no payload.
C18_CorruptChecksumRejected ==
    codec_pc = "parsed" /\ ChecksumCorrupted(raw_message)
    => parse_result = Err("ChecksumError")

\* A frame whose payload bytes are a valid string, and would be returned but
\* for the checksum, has been parsed.
C18_Witness ==
    /\ codec_pc = "parsed"
    /\ ChecksumCorrupted(raw_message)
    /\ LET L == from_be_bytes(SubSeq(raw_message, 1, SizeOfU32))
       IN  from_utf8(SubSeq(raw_message, 2 * SizeOfU32 + 1, 2 * SizeOfU32 + L)).kind = "Ok"
    /\ parse_result.kind = "Err"

\* Two connections whose clients set up lobbies and games and send requests
\* whose bodies do not decode.
DecodeStep(c) ==
    \/ ConnectRequest(c)
    \/ CreateLobbyRequest(c)
    \/ JoinLobbyRequest(c)
    \/ StartGameRequest(c)
    \/ UndecodableBody(c)
    \/ LockPoisoned(c)

NextDecode == \E c \in GameConns : DecodeStep(c)

SpecDecode == Init /\ [][NextDecode]_vars

\* The error the claim names for a body that does not decode: what
\* parse_message_data returns, and BodySizeError for a declared length beyond
\* the bytes of the frame.
DecodeFailure(remainder) ==
    IF parse_message_data(remainder).kind = "Err"
    THEN parse_message_data(remainder).error
    ELSE "BodySizeError"

\* C16: an in-sequence request whose body does not decode is answered with
\* ProtocolError and the status of its decode failure, and changes nothing:
\* no client, lobby or game, and the server does not crash.
C16_DecodeFailureAnswered ==
    [][\A c \in GameConns, remainder \in UndecodableFrames,
          message_type \in {"CreateLobbyRequest", "JoinLobbyRequest", "StartGameRequest",
                            "MoveRequest"} :
          \/ /\ sent' = <<Send(c, build_server_error_response(DecodeFailure(remainder)))>>
             /\ clients' = clients
             /\ lobbies' = lobbies
             /\ games_in_progress' = games_in_progress
             /\ ~poisoned'
             /\ threads'[c].pc = "listening"
          \/ ~ /\ Listening(c) /\ Authenticated(c)
               /\ UndecodableBodyOf(c, message_type, remainder)]_vars

\* A client in a lobby has sent a request whose body does not decode, while
\* the client of the other connection is still being listened to.
C16_Witness ==
    \E c, d \in GameConns :
        /\ threads[c].pc = "panicked"
        /\ threads[c].client_id \in DOMAIN clients
        /\ clients[threads[c].client_id].lobby_id # None
        /\ threads[d].pc = "listening"
        /\ threads[d].client_id \in DOMAIN clients
        /\ poisoned
        /\ sent = <<>>

(***************************************************************************)
(* The client's operations and its listen cycle, in the synchronous mode   *)
(* (is_listening_async is false): an operation sets the state inside the   *)
(* lock, writes its request and reads one message.                         *)
(***************************************************************************)
\* The public operations that send a request over the open socket.
Operations ==
    {"request_lobby_list", "request_supported_games", "refresh_current_lobby",
     "create_lobby", "join_lobby", "leave_lobby", "start_game", "make_move",
     "return_to_lobby", "disconnect"}

\* The request an operation writes.
RequestOf(op) ==
    CASE op = "connect" -> "ConnectRequest"
      [] op = "disconnect" -> "DisconnectRequest"
      [] op = "request_lobby_list" -> "LobbyListRequest"
      [] op = "request_supported_games" -> "SupportedGamesRequest"
      [] op = "refresh_current_lobby" -> "LobbyInfoRequest"
      [] op = "create_lobby" -> "CreateLobbyRequest"
      [] op = "join_lobby" -> "JoinLobbyRequest"
      [] op = "leave_lobby" -> "LeaveLobbyRequest"
      [] op = "start_game" -> "StartGameRequest"
      [] op = "make_move" -> "MoveRequest"
      [] op = "return_to_lobby" -> "ReturnToLobbyRequest"

\* What an operation assigns inside the lock before it writes its request.
\* make_move and return_to_lobby assign nothing; disconnect assigns
\* protocol_state to itself where the others record it as the previous state.
OperationState(st, op) ==
    CASE op = "request_lobby_list" ->
            [st EXCEPT !.previous_protocol_state = st.protocol_state,
                       !.protocol_state = "GettingLobbies"]
      [] op = "request_supported_games" ->
            [st EXCEPT !.previous_protocol_state = st.protocol_state,
                       !.protocol_state = "GettingSupportedGames"]
      [] op = "refresh_current_lobby" ->
            [st EXCEPT !.previous_protocol_state = st.protocol_state,
                       !.protocol_state = "GettingLobbyInfo"]
      [] op = "create_lobby" ->
            [st EXCEPT !.previous_protocol_state = st.protocol_state,
                       !.protocol_state = "CreatingLobby"]
      [] op = "join_lobby" ->
            [st EXCEPT !.previous_protocol_state = st.protocol_state,
                       !.protocol_state = "JoiningLobby"]
      [] op = "leave_lobby" ->
            [st EXCEPT !.previous_protocol_state = st.protocol_state,
                       !.protocol_state = "LeavingLobby"]
      [] op = "start_game" ->
            [st EXCEPT !.previous_protocol_state = st.protocol_state,
                       !.protocol_state = "CreatingGameSession"]
      [] op = "make_move" -> st
      [] op = "return_to_lobby" -> st
      [] op = "disconnect" ->
            [st EXCEPT !.protocol_state = "ClosingConnection"]

\* An operation is called: with no socket, socket.as_ref().unwrap() panics;
\* otherwise the state is assigned and the lock dropped.
Operation(op) ==
    /\ client_pc = "ready"
    /\ state_at_request' = client_state.protocol_state
    /\ written' = <<>>
    /\ IF ~client_state.socket
       THEN /\ client_pc' = "panicked"
            /\ UNCHANGED <<client_state, client_op>>
       ELSE /\ client_state' = OperationState(client_state, op)
            /\ client_op' = op
            /\ client_pc' = "sending"
    /\ UNCHANGED <<inbox, connection, server_vars, codec_vars, data_vars>>

\* connect: nothing when there is a socket already; otherwise the state is
\* assigned, and TcpStream::connect succeeds (tcp_ok) or fails.
Connect(tcp_ok) ==
    /\ client_pc = "ready"
    /\ state_at_request' = client_state.protocol_state
    /\ written' = <<>>
    /\ IF client_state.socket
       THEN UNCHANGED <<client_state, client_op, client_pc>>
       ELSE IF tcp_ok
       THEN /\ client_state' =
                  [client_state EXCEPT
                      !.previous_protocol_state = client_state.protocol_state,
                      !.protocol_state = "Authenticating",
                      !.socket = TRUE]
            /\ client_op' = "connect"
            /\ client_pc' = "sending"
       ELSE /\ client_state' =
                  [client_state EXCEPT
                      !.previous_protocol_state = client_state.protocol_state,
                      !.protocol_state = "Closed"]
            /\ UNCHANGED <<client_op, client_pc>>
    /\ UNCHANGED <<inbox, connection, server_vars, codec_vars, data_vars>>

\* send_message: the request goes out under the current message number, which
\* is incremented, wrapping at u32::MAX; then the operation listens.
SendMessage ==
    /\ client_pc = "sending"
    /\ written' = <<[id |-> client_state.next_message_num, type |-> RequestOf(client_op)]>>
    /\ client_state' =
          [client_state EXCEPT
              !.next_message_num = IF @ = U32_MAX THEN 0 ELSE @ + 1]
    /\ client_pc' = "listening"
    /\ UNCHANGED <<client_op, state_at_request, inbox, connection, server_vars, codec_vars, data_vars>>

\* What a server puts in the header of a message.
ServerMessageTypes ==
    {"ConnectResponse", "DisconnectResponse", "LobbyListResponse",
     "SupportedGamesResponse", "LobbyInfoResponse", "LeaveLobbyResponse",
     "GameStateResponse", "UnsolicitedMessage", "MissingMessageResponse",
     "ProtocolError", "Unsupported"}
ServerStatusCodes == {"Success", "NotInLobby", "GameOver"}

\* The arm of GameStateResponse starts with current_lobby.as_ref().unwrap(),
\* which panics on None.
HandlePanics(st, message_type) ==
    message_type = "GameStateResponse" /\ ~st.current_lobby

\* The match on message_type in listen: the state after the message.
HandleMessage(st, status_code, message_type) ==
    LET success == status_code = "Success"
    IN  CASE message_type = "ConnectResponse" ->
                IF success THEN [st EXCEPT !.protocol_state = "Idle"] ELSE st
          [] message_type = "DisconnectResponse" ->
                IF success
                THEN [st EXCEPT !.protocol_state = "Closed", !.socket = FALSE,
                                !.current_lobby = FALSE, !.next_message_num = 0]
                ELSE st
          [] message_type \in {"LobbyListResponse", "SupportedGamesResponse"} ->
                IF success THEN [st EXCEPT !.protocol_state = "Idle"] ELSE st
          [] message_type = "LobbyInfoResponse" ->
                IF success
                THEN [st EXCEPT !.protocol_state = "InLobby", !.current_lobby = TRUE]
                ELSE st
          [] message_type = "LeaveLobbyResponse" ->
                IF success
                THEN [st EXCEPT !.protocol_state = "Idle", !.current_lobby = FALSE]
                ELSE st
          [] message_type = "GameStateResponse" ->
                IF st.protocol_state \in {"CreatingGameSession", "InLobby"}
                THEN [st EXCEPT !.game_in_progress = TRUE,
                                !.protocol_state = "GameRunning"]
                ELSE st
          [] message_type = "ProtocolError" ->
                [st EXCEPT !.protocol_state = st.previous_protocol_state]
          [] OTHER -> st

\* listen reads one message of the server and handles it.
Listen(status_code, message_type) ==
    /\ client_pc = "listening"
    /\ IF HandlePanics(client_state, message_type)
       THEN /\ client_pc' = "panicked"
            /\ UNCHANGED client_state
       ELSE /\ client_pc' = "ready"
            /\ client_state' = HandleMessage(client_state, status_code, message_type)
    /\ UNCHANGED <<client_op, written, state_at_request, inbox, connection, server_vars,
                   codec_vars, data_vars>>

\* listen reads Ok(0) or Err(e): nothing is handled.
ListenNothing ==
    /\ client_pc = "listening"
    /\ client_pc' = "ready"
    /\ UNCHANGED <<client_state, client_op, written, state_at_request, inbox, connection,
                   server_vars, codec_vars, data_vars>>

NextClient ==
    \/ \E op \in Operations : Operation(op)
    \/ \E tcp_ok \in BOOLEAN : Connect(tcp_ok)
    \/ SendMessage
    \/ \E status_code \in ServerStatusCodes, message_type \in ServerMessageTypes :
           Listen(status_code, message_type)
    \/ ListenNothing

SpecClient == Init /\ [][NextClient]_vars

\* The states a client rests in between operations.
SettledStates == {"Closed", "Idle", "InLobby", "GameRunning"}

\* C19: when an operation was called in a settled state S and the server's
\* answer to its request is a ProtocolError, protocol_state is S again once
\* the answer has been handled.
C19_ProtocolErrorReverts ==
    [][\A status_code \in ServerStatusCodes \ {"Success"} :
          /\ state_at_request \in SettledStates
          /\ written # <<>>
          /\ Listen(status_code, "ProtocolError")
          => client_state'.protocol_state = state_at_request]_vars

\* The answer to the request of make_move or return_to_lobby, called while
\* the game runs, was a ProtocolError and has been handled.
C19_Witness ==
    /\ client_pc = "ready"
    /\ state_at_request = "GameRunning"
    /\ client_op \in {"make_move", "return_to_lobby"}
    /\ written # <<>>
    /\ client_state.protocol_state = client_state.previous_protocol_state
    /\ client_state.protocol_state # "GameRunning"

\* The pending value of each operation; for make_move and return_to_lobby the
\* two states of ProtocolState that no other operation uses.
PendingState(op) ==
    CASE op = "connect" -> "Authenticating"
      [] op = "disconnect" -> "ClosingConnection"
      [] op = "request_lobby_list" -> "GettingLobbies"
      [] op = "request_supported_games" -> "GettingSupportedGames"
      [] op = "refresh_current_lobby" -> "GettingLobbyInfo"
      [] op = "create_lobby" -> "CreatingLobby"
      [] op = "join_lobby" -> "JoiningLobby"
      [] op = "leave_lobby" -> "LeavingLobby"
      [] op = "start_game" -> "CreatingGameSession"
      [] op = "make_move" -> "GettingGameState"
      [] op = "return_to_lobby" -> "LeavingGameSession"

\* C20: when an operation is about to write its request, it has recorded the
\* state it was called in as previous_protocol_state and protocol_state is
\* the operation's pending value.
C20_PendingBeforeSend ==
    client_pc = "sending"
    => /\ client_state.previous_protocol_state = state_at_request
       /\ client_state.protocol_state = PendingState(client_op)

\* disconnect is about to write its request with protocol_state at its
\* pending value, called in a state other than the one recorded last.
C20_Witness ==
    /\ client_pc = "sending"
    /\ client_op = "disconnect"
    /\ client_state.protocol_state = "ClosingConnection"
    /\ client_state.previous_protocol_state # state_at_request

(***************************************************************************)
(* The header fields on their own: message types and status codes that a   *)
(* sender writes and a receiver decodes, and codes that arrive from a      *)
(* socket.                                                                 *)
(***************************************************************************)
\* The values of an enumeration, and the arms and the wildcard of its parser.
ValuesOf(enum) == IF enum = "MessageType" THEN MessageTypeValues ELSE StatusCodeValues
ParseField(enum, bytes) ==
    IF enum = "MessageType" THEN parse_message_type(bytes) ELSE parse_status_code(bytes)

InitHeader ==
    /\ clients = EmptyMap
    /\ lobbies = EmptyMap
    /\ games_in_progress = EmptyMap
    /\ poisoned = FALSE
    /\ threads = [c \in Conns |-> [pc |-> "listening", client_id |-> ""]]
    /\ sent = <<>>
    /\ owner_changed = FALSE
    /\ ClientNew
    /\ message_body = NoneBody
    /\ raw_message = <<>>
    /\ parse_result = Ok(<<>>)
    /\ codec_pc = "idle"
    /\ header_enum \in {"MessageType", "StatusCode"}
    /\ header_decoded = "Unsupported"
    /\ \/ /\ header_pc = "build"
          /\ header_value \in {ValuesOf(header_enum)[i] : i \in 1..Len(ValuesOf(header_enum))}
          /\ header_bytes = <<>>
       \/ /\ header_pc = "received"
          /\ header_value = "Unsupported"
          /\ header_bytes \in [1..SizeOfU16 -> Bytes]

\* build_client_headers and build_server_headers write the field:
\* (value as u16).to_be_bytes()
WriteField ==
    /\ header_pc = "build"
    /\ header_bytes' = u16_to_be_bytes(as_u16(ValuesOf(header_enum), header_value))
    /\ header_pc' = "built"
    /\ UNCHANGED <<header_enum, header_value, header_decoded, message_body, raw_message,
                   parse_result, codec_pc, server_vars, client_vars>>

\* The peer decodes the field the sender wrote.
ParseWritten ==
    /\ header_pc = "built"
    /\ header_decoded' = ParseField(header_enum, header_bytes)
    /\ header_pc' = "round_trip"
    /\ UNCHANGED <<header_enum, header_value, header_bytes, message_body, raw_message,
                   parse_result, codec_pc, server_vars, client_vars>>

\* The peer decodes a field that arrived from a socket.
ParseArrived ==
    /\ header_pc = "received"
    /\ header_decoded' = ParseField(header_enum, header_bytes)
    /\ header_pc' = "parsed"
    /\ UNCHANGED <<header_enum, header_value, header_bytes, message_body, raw_message,
                   parse_result, codec_pc, server_vars, client_vars>>

NextHeader == WriteField \/ ParseWritten \/ ParseArrived

SpecHeader == InitHeader /\ [][NextHeader]_vars

\* C21: the value decoded from the code a sender writes for a message type or
\* a status code is that value, and a code that no value has decodes to
\* Unsupported (message types) or UnexpectedError (status codes).
C21_CodesRoundTrip ==
    /\ header_pc = "round_trip" => header_decoded = header_value
    /\ header_pc = "parsed" /\ from_be_bytes(header_bytes) >= Len(ValuesOf(header_enum))
       => header_decoded = IF header_enum = "MessageType" THEN "Unsupported"
                           ELSE "UnexpectedError"

\* A MissingMessageResponse has been written and decoded by the peer.
C21_Witness ==
    /\ header_pc = "round_trip"
    /\ header_enum = "MessageType"
    /\ header_value = "MissingMessageResponse"
    /\ header_decoded = "UnsolicitedMessage"

\* C22: in every state of the server a registered client has lobby_id = L
\* exactly when lobby L exists and its player_ids holds the client's id; every
\* id in a lobby's player_ids is a registered client, occurs once there and
\* occurs in no other lobby.  Every request is processed from such a state,
\* the states left behind by a thread that panicked inside the lock included.
C22_LobbyPairing ==
    /\ \A id \in DOMAIN clients :
          /\ clients[id].lobby_id # None =>
                /\ clients[id].lobby_id \in DOMAIN lobbies
                /\ Contains(lobbies[clients[id].lobby_id].player_ids, id)
          /\ \A L \in DOMAIN lobbies :
                Contains(lobbies[L].player_ids, id) => clients[id].lobby_id = L
    /\ \A L \in DOMAIN lobbies :
          \A i \in 1..Len(lobbies[L].player_ids) :
             /\ lobbies[L].player_ids[i] \in DOMAIN clients
             /\ \A j \in 1..Len(lobbies[L].player_ids) :
                   j # i => lobbies[L].player_ids[j] # lobbies[L].player_ids[i]
             /\ \A L2 \in DOMAIN lobbies :
                   L2 # L => ~Contains(lobbies[L2].player_ids, lobbies[L].player_ids[i])

\* The owner of a lobby of its own has been cleaned up and its thread has
\* panicked inside the lock, next to a lobby of two players: the emptied lobby
\* is still there and the client is still registered.
C22_Witness ==
    /\ poisoned
    /\ \E L \in DOMAIN lobbies : Len(lobbies[L].player_ids) = 0
    /\ \E L \in DOMAIN lobbies : Len(lobbies[L].player_ids) = 2
    /\ Cardinality(DOMAIN clients) = NumConnections

(***************************************************************************)
(* A client and the server together: the client of client/mod.rs connects, *)
(* calls its operations and listens on one connection after the other; the *)
(* server reads what the client wrote, one message per read, and what it    *)
(* writes to the client's socket is what the client reads.  Another client  *)
(* on a connection of its own shares the lobbies.                           *)
(***************************************************************************)
\* The connections the client uses, one per session, and the connection of
\* the other client.
SessionConns == 1..(NumConnections - 1)
OtherConn == NumConnections

\* The status and the type of the messages of `out` written to socket `to`.
WrittenTo(out, to) ==
    LET mine == SelectSeq(out, LAMBDA m : m.to = to)
    IN  [i \in 1..Len(mine) |-> [status |-> mine[i].status, type |-> mine[i].type]]

\* What a step of the listening loop takes from outside a message of a type:
\* the first draw of the Uuid loop of a ConnectRequest is an id that occurs
\* nowhere.
Envs(c, message_type) ==
    CASE message_type = "ConnectRequest" ->
            {Env(UuidLoop(<<ClientIdNames[c]>>, DOMAIN clients), "", o) : o \in BOOLEAN}
      [] message_type = "CreateLobbyRequest" /\ NewLobbyIds # {} ->
            {Env("", l, FALSE) : l \in NewLobbyIds}
      [] OTHER -> {NoEnv}

\* One iteration of the listening loop of connection c that read msg, as
\* ListenToClient, with the messages written to the client's socket arriving
\* in its inbox while the client holds that socket.
Served(c, msg, env) ==
    /\ threads[c].pc = "listening"
    /\ UNCHANGED <<codec_vars, data_vars>>
    /\ IF poisoned
       THEN /\ threads' = [threads EXCEPT ![c].pc = "panicked"]
            /\ sent' = <<>>
            /\ owner_changed' = FALSE
            /\ UNCHANGED <<clients, lobbies, games_in_progress, poisoned, inbox>>
       ELSE \E P \in {ProcessMessage(ServerState, threads[c].client_id, c, msg, env)} :
            LET R == P.result
            IN  /\ sent' = R.sent
                /\ poisoned' = R.panic
                /\ clients' = R.clients
                /\ lobbies' = R.lobbies
                /\ games_in_progress' = R.games_in_progress
                /\ owner_changed' = OwnerChanged(lobbies, R.lobbies)
                /\ threads' = [threads EXCEPT ![c] =
                                  [pc |-> IF R.panic THEN "panicked"
                                          ELSE IF R.break THEN "cleanup"
                                          ELSE "listening",
                                   client_id |-> IF R.panic THEN @.client_id
                                                 ELSE P.client_id]]
                /\ inbox' = IF client_state.socket
                            THEN inbox \o WrittenTo(R.sent, connection)
                            ELSE inbox

\* connect: nothing when there is a socket already; otherwise TcpStream::connect
\* fails, or it succeeds and the server accepts one more connection.
SessionConnect(tcp_ok) ==
    /\ client_pc = "ready"
    /\ state_at_request' = client_state.protocol_state
    /\ IF client_state.socket
       THEN UNCHANGED <<client_state, client_op, client_pc, written, inbox, connection>>
       ELSE IF tcp_ok
       THEN /\ connection + 1 \in SessionConns
            /\ connection' = connection + 1
            /\ written' = <<>>
            /\ inbox' = <<>>
            /\ client_state' =
                  [client_state EXCEPT
                      !.previous_protocol_state = client_state.protocol_state,
                      !.protocol_state = "Authenticating",
                      !.socket = TRUE]
            /\ client_op' = "connect"
            /\ client_pc' = "sending"
       ELSE /\ client_state' =
                  [client_state EXCEPT
                      !.previous_protocol_state = client_state.protocol_state,
                      !.protocol_state = "Closed"]
            /\ UNCHANGED <<client_op, client_pc, written, inbox, connection>>
    /\ UNCHANGED <<server_vars, codec_vars, data_vars>>

\* The thread of the client's connection is in its listening loop.
SessionServed == connection \in SessionConns /\ threads[connection].pc = "listening"

\* The operations the client calls.
SessionOperations ==
    {"create_lobby", "start_game", "make_move", "disconnect"}

\* An operation of a client whose last request has been read by the server,
\* or is on a connection the server reads no more.
SessionOperation(op) ==
    /\ written = <<>> \/ ~SessionServed
    /\ Operation(op)

\* The arguments the client's operations are called with: the bodies of the
\* server's inputs, with one move inside the board and one outside it.
SessionBodies(message_type) ==
    IF message_type = "MoveRequest"
    THEN {m \in MoveInputs : m.symbol = "X" /\ m.board_index[2] = 0}
    ELSE Bodies(message_type)

\* The server reads the request the client wrote.  The arguments of the
\* operation make the body.
SessionRequest ==
    /\ written # <<>>
    /\ SessionServed
    /\ written' = Tail(written)
    /\ \E body \in SessionBodies(written[1].type),
          env \in Envs(connection, written[1].type) :
           Served(connection, Message(written[1].id, written[1].type, body), env)
    /\ UNCHANGED <<client_state, client_pc, client_op, state_at_request, connection>>

\* The requests of the other client, each under the message id the server
\* expects of it: it connects and joins a lobby that has a place for it.
OtherRequestTypes == {"ConnectRequest", "JoinLobbyRequest"}

\* Most unread messages in the inbox when the other client sends a request.
MaxInbox == 1

OtherClientRequest ==
    /\ threads[OtherConn].pc = "listening"
    /\ Len(inbox) < MaxInbox
    /\ \E message_type \in OtherRequestTypes :
          /\ Authenticated(OtherConn) <=> message_type # "ConnectRequest"
          /\ \E body \in Bodies(message_type), env \in Envs(OtherConn, message_type) :
                /\ message_type = "JoinLobbyRequest" =>
                      /\ clients[threads[OtherConn].client_id].lobby_id = None
                      /\ body.lobby_id \in DOMAIN lobbies
                      /\ ~is_full(lobbies[body.lobby_id])
                /\ Served(OtherConn,
                          Message(IF Authenticated(OtherConn) THEN ExpectedId(OtherConn)
                                  ELSE 0,
                                  message_type, body),
                          env)
    /\ UNCHANGED <<client_state, client_pc, client_op, written, state_at_request,
                   connection>>

\* The clean up of a thread that left its loop, as CleanUpClient, with the
\* messages written to the client's socket arriving in its inbox.
SessionCleanUp(c) ==
    /\ threads[c].pc = "cleanup"
    /\ UNCHANGED <<codec_vars, data_vars, client_state, client_pc, client_op, written,
                   state_at_request, connection>>
    /\ IF threads[c].client_id = ""
       THEN /\ threads' = [threads EXCEPT ![c].pc = "exited"]
            /\ sent' = <<>>
            /\ owner_changed' = FALSE
            /\ UNCHANGED <<clients, lobbies, games_in_progress, poisoned, inbox>>
       ELSE IF poisoned
       THEN /\ threads' = [threads EXCEPT ![c].pc = "panicked"]
            /\ sent' = <<>>
            /\ owner_changed' = FALSE
            /\ UNCHANGED <<clients, lobbies, games_in_progress, poisoned, inbox>>
       ELSE \E R \in {CleanUp(ServerState, threads[c].client_id)} :
                /\ clients' = R.clients
                /\ lobbies' = R.lobbies
                /\ games_in_progress' = R.games_in_progress
                /\ poisoned' = R.panic
                /\ sent' = R.sent
                /\ owner_changed' = OwnerChanged(lobbies, R.lobbies)
                /\ threads' = [threads EXCEPT ![c].pc =
                                  IF R.panic THEN "panicked" ELSE "exited"]
                /\ inbox' = IF client_state.socket
                            THEN inbox \o WrittenTo(R.sent, connection)
                            ELSE inbox

\* listen reads the next message of the server and handles it; what is left
\* unread when the socket is given up is never read.
SessionListen ==
    /\ client_pc = "listening"
    /\ inbox # <<>>
    /\ IF HandlePanics(client_state, Head(inbox).type)
       THEN /\ client_pc' = "panicked"
            /\ inbox' = Tail(inbox)
            /\ UNCHANGED client_state
       ELSE \E st \in {HandleMessage(client_state, Head(inbox).status, Head(inbox).type)} :
               /\ client_pc' = "ready"
               /\ client_state' = st
               /\ inbox' = IF st.socket THEN Tail(inbox) ELSE <<>>
    /\ UNCHANGED <<client_op, written, state_at_request, connection, server_vars,
                   codec_vars, data_vars>>

\* listen on a connection whose thread has left its loop, with nothing to
\* read: Ok(0) or Err(e), and what the client wrote is read by nobody.
SessionListenNothing ==
    /\ client_pc = "listening"
    /\ inbox = <<>>
    /\ ~SessionServed
    /\ client_pc' = "ready"
    /\ written' = <<>>
    /\ UNCHANGED <<client_state, client_op, state_at_request, inbox, connection,
                   server_vars, codec_vars, data_vars>>

NextSession ==
    \/ \E tcp_ok \in BOOLEAN : SessionConnect(tcp_ok)
    \/ \E op \in SessionOperations : SessionOperation(op)
    \/ SendMessage
    \/ SessionRequest
    \/ OtherClientRequest
    \/ \E c \in Conns : SessionCleanUp(c)
    \/ SessionListen
    \/ SessionListenNothing

SpecSession == Init /\ [][NextSession]_vars

\* The client's thread on the server has a registered client.
SessionAuthenticated == SessionServed /\ Authenticated(connection)

\* C23: the number the server expects of the client is the number on the
\* request the server reads next: the one in flight, or, with none in flight,
\* the client's next_message_num; the first request on a connection is the
\* ConnectRequest; and the server writes the client no MissingMessageResponse.
C23_SequenceInStep ==
    /\ SessionAuthenticated /\ written # <<>> => ExpectedId(connection) = written[1].id
    /\ SessionAuthenticated /\ written = <<>> /\ client_state.socket
       => ExpectedId(connection) = client_state.next_message_num
    /\ SessionServed /\ ~Authenticated(connection) /\ written # <<>>
       => written[1].type = "ConnectRequest"
    /\ \A i \in 1..Len(sent) :
          sent[i].to \in SessionConns => sent[i].type # "MissingMessageResponse"

\* In its second session, after a disconnect and a reconnect, the client's
\* counter has wrapped and the server has read every request.
C23_Witness ==
    /\ connection = 2
    /\ SessionAuthenticated
    /\ client_pc = "ready"
    /\ written = <<>>
    /\ client_state.next_message_num = 0
    /\ ExpectedId(connection) = 0

\* The lobby of the client of connection c.
LobbyOf(c) == clients[threads[c].client_id].lobby_id

\* The board of `after` is the board of `before` with the move's symbol in the
\* move's cell, and the turn has passed to the other symbol.
MovedOnce(before, after, mv) ==
    /\ after.state.board[mv.board_index[1]][mv.board_index[2]] = mv.symbol
    /\ \A r \in BoardIndices, k \in BoardIndices :
          <<r, k>> # mv.board_index => after.state.board[r][k] = before.state.board[r][k]
    /\ after.state.this_turn # before.state.this_turn
    /\ after.state.this_turn \in {"X", "O"}
    /\ after.players = before.players

\* C24: a valid move of a client in a lobby whose live game has not ended is
\* applied once, and one GameStateResponse with the state after the move is
\* written to the socket of every client of the lobby's player_ids, the mover
\* among them; nothing else changes but the mover's expected message id.
C24_ValidMoveBroadcast ==
    [][\A c \in GameConns, mv \in MoveInputs :
          \/ /\ InLiveGame(c)
             /\ IndexInBounds(mv)
             /\ LET L == LobbyOf(c)
                    ids == lobbies[L].player_ids
                    response == build_game_state_response("Success",
                                                          games_in_progress'[L].state)
                IN  /\ DOMAIN games_in_progress' = DOMAIN games_in_progress
                    /\ MovedOnce(games_in_progress[L], games_in_progress'[L], mv)
                    /\ \A g \in DOMAIN games_in_progress \ {L} :
                          games_in_progress'[g] = games_in_progress[g]
                    /\ lobbies' = lobbies
                    /\ Len(sent') = Len(ids)
                    /\ \A i \in 1..Len(ids) :
                          sent'[i] = Send(clients[ids[i]].socket, response)
                    /\ \A i \in 1..Len(ids) :
                          Cardinality({j \in 1..Len(sent') :
                                          sent'[j].to = clients[ids[i]].socket}) = 1
                    /\ Cardinality({j \in 1..Len(sent') : sent'[j].to = c}) = 1
          \/ ~ /\ InLiveGame(c)
               /\ IndexInBounds(mv)
               /\ is_valid_move(GameOf(c), mv)
               /\ ~end_condition_met(GameOf(c))[1]
               /\ InSequence(c, "MoveRequest", mv, NoEnv)]_vars

\* A move has just been applied in a lobby of two players and both have been
\* written the state with the mark on the board.
C24_Witness ==
    \E L \in DOMAIN games_in_progress \cap DOMAIN lobbies :
        /\ Len(lobbies[L].player_ids) = 2
        /\ Len(sent) = 2
        /\ sent[1].to # sent[2].to
        /\ \A i \in 1..2 :
              /\ sent[i].type = "GameStateResponse"
              /\ sent[i].body.state = games_in_progress[L].state
        /\ games_in_progress[L].state.board[0][0] = "X"
        /\ games_in_progress[L].state.board[1][1] = "O"

\* A game nobody has moved in, with the players `ids` in it: an empty board, X
\* to move, the first player X and the second O.
FreshGame(game, ids) ==
    /\ game.players = ids
    /\ \A r \in BoardIndices, k \in BoardIndices : game.state.board[r][k] = "None"
    /\ game.state.this_turn = "X"
    /\ game.state.x_player_id = (IF Len(ids) >= 1 THEN ids[1] ELSE "")
    /\ game.state.o_player_id = (IF Len(ids) >= 2 THEN ids[2] ELSE "")
    /\ game.state.winner = None
    /\ ~game.state.game_over
    /\ game.metadata = TicTacToeMetadata

\* C25: the step of a StartGameRequest that meets the criteria leaves, under
\* the id of the requester's lobby, a fresh game whose players are the lobby's
\* player_ids, the lobby marked game_started, and one GameStateResponse with
\* the state of the fresh game written to every player of the lobby; the other
\* lobbies and games are as before.
C25_StartCreatesFreshGame ==
    [][\A c \in GameConns, l \in LobbyIds :
          \/ /\ Listening(c) /\ Authenticated(c)
             /\ LobbyOf(c) # None
             /\ LET L == LobbyOf(c)
                    ids == lobbies[L].player_ids
                IN  /\ DOMAIN games_in_progress' = DOMAIN games_in_progress \cup {L}
                    /\ FreshGame(games_in_progress'[L], ids)
                    /\ \A g \in DOMAIN games_in_progress \ {L} :
                          games_in_progress'[g] = games_in_progress[g]
                    /\ lobbies' = [lobbies EXCEPT ![L].game_started = TRUE]
                    /\ Len(sent') = Len(ids)
                    /\ \A i \in 1..Len(ids) :
                          sent'[i] = Send(clients[ids[i]].socket,
                                          build_game_state_response(
                                              "Success", games_in_progress'[L].state))
          \/ ~ /\ Listening(c) /\ Authenticated(c)
               /\ LobbyOf(c) # None
               /\ StartCriteria(threads[c].client_id, l)
               /\ InSequence(c, "StartGameRequest", [lobby_id |-> l], NoEnv)]_vars

\* A game has just been started in a lobby of two players: it is fresh and
\* both players have been written its state.
C25_Witness ==
    \E L \in DOMAIN games_in_progress \cap DOMAIN lobbies :
        /\ lobbies[L].game_started
        /\ FreshGame(games_in_progress[L], lobbies[L].player_ids)
        /\ Len(sent) = 2
        /\ sent[1].to # sent[2].to
        /\ \A i \in 1..2 :
              sent[i] = Send(sent[i].to, build_game_state_response(
                                             "Success", games_in_progress[L].state))

\* The step changed no lobby, no game, no registration and no client's lobby.
NothingChanged ==
    /\ lobbies' = lobbies
    /\ games_in_progress' = games_in_progress
    /\ DOMAIN clients' = DOMAIN clients
    /\ \A k \in DOMAIN clients :
          /\ clients'[k].lobby_id = clients[k].lobby_id
          /\ clients'[k].socket = clients[k].socket
          /\ clients'[k].id = clients[k].id

\* `out` is one copy of message per entry of ids, in order, each written to
\* the socket of that client, and no socket is written to twice.
OneEach(out, ids, message) ==
    /\ Len(out) = Len(ids)
    /\ \A i \in 1..Len(ids) : out[i] = Send(clients[ids[i]].socket, message)
    /\ \A i \in 1..Len(out), j \in 1..Len(out) : i # j => out[i].to # out[j].to

\* What C26 says of the step that handles the JoinLobbyRequest of the client
\* of connection c for lobby l.
JoinOutcome(c, l) ==
    LET id == threads[c].client_id
    IN  IF clients[id].lobby_id # None
        THEN OnlyProtocolError(sent', c, "AlreadyInALobby") /\ NothingChanged
        ELSE IF l \notin DOMAIN lobbies
        THEN OnlyProtocolError(sent', c, "LobbyNotFound") /\ NothingChanged
        ELSE IF Len(lobbies[l].player_ids) < lobbies[l].game_metadata.max_players
        THEN /\ lobbies' = [lobbies EXCEPT ![l].player_ids = Append(@, id)]
             /\ games_in_progress' = games_in_progress
             /\ DOMAIN clients' = DOMAIN clients
             /\ clients'[id].lobby_id = l
             /\ \A k \in DOMAIN clients \ {id} : clients'[k].lobby_id = clients[k].lobby_id
             /\ OneEach(sent', lobbies'[l].player_ids,
                        build_lobby_info_response("Success", lobbies'[l]))
             /\ sent'[Len(sent')].to = c
        ELSE TRUE

RosterStep(c) ==
    \/ ConnectRequest(c)
    \/ CreateLobbyRequest(c)
    \/ JoinLobbyRequest(c)
    \/ LeaveLobbyRequest(c)
    \/ StartGameRequest(c)
    \/ ReturnToLobbyRequest(c)
    \/ LockPoisoned(c)

NextRoster == \E c \in GameConns : RosterStep(c)

SpecRoster == Init /\ [][NextRoster]_vars

\* What C27 says of the step that handles the LeaveLobbyRequest of the client
\* of connection c.
LeaveOutcome(c) ==
    LET id == threads[c].client_id
        L == clients[id].lobby_id
        confirm == Send(c, build_server_headers("Success", "LeaveLobbyResponse"))
    IN  IF L = None
        THEN /\ sent' = <<Send(c, build_server_headers("NotInLobby", "LeaveLobbyResponse"))>>
             /\ NothingChanged
        ELSE LET remaining == SelectSeq(lobbies[L].player_ids, LAMBDA p : p # id)
             IN  /\ Len(remaining) = Len(lobbies[L].player_ids) - 1
                 /\ DOMAIN clients' = DOMAIN clients
                 /\ clients'[id].lobby_id = None
                 /\ \A k \in DOMAIN clients \ {id} : clients'[k].lobby_id = clients[k].lobby_id
                 /\ \A l \in DOMAIN lobbies \ {L} : l \in DOMAIN lobbies' /\ lobbies'[l] = lobbies[l]
                 /\ IF remaining = <<>>
                    THEN /\ DOMAIN lobbies' = DOMAIN lobbies \ {L}
                         /\ sent' = <<confirm>>
                    ELSE /\ DOMAIN lobbies' = DOMAIN lobbies
                         /\ lobbies'[L] =
                               [lobbies[L] EXCEPT
                                   !.player_ids = remaining,
                                   !.owner = IF @ = id THEN remaining[1] ELSE @]
                         /\ OneEach(SubSeq(sent', 1, Len(sent') - 1), remaining,
                                    build_lobby_info_response("Success", lobbies'[L]))
                         /\ sent'[Len(sent')] = confirm
                         /\ Len(sent') = Len(remaining) + 1

ReturnOutcome(c) ==
    LET id == threads[c].client_id
        L == clients[id].lobby_id
    IN  IF L = None
        THEN OnlyProtocolError(sent', c, "NotInLobby") /\ NothingChanged
        ELSE IF L \notin DOMAIN games_in_progress
        THEN OnlyProtocolError(sent', c, "GameSessionNotFound") /\ NothingChanged
        ELSE LET roster == SelectSeq(games_in_progress[L].players, LAMBDA p : p # id)
             IN  /\ IF roster = <<>>
                    THEN /\ DOMAIN games_in_progress' = DOMAIN games_in_progress \ {L}
                         /\ lobbies' = [lobbies EXCEPT ![L].game_started = FALSE]
                    ELSE /\ DOMAIN games_in_progress' = DOMAIN games_in_progress
                         /\ games_in_progress'[L].players = roster
                         /\ games_in_progress'[L].state.board
                               = games_in_progress[L].state.board
                         /\ lobbies' = lobbies
                 /\ \A g \in DOMAIN games_in_progress \ {L} :
                       games_in_progress'[g] = games_in_progress[g]
                 /\ DOMAIN clients' = DOMAIN clients
                 /\ \A k \in DOMAIN clients : clients'[k].lobby_id = clients[k].lobby_id
                 /\ sent' = <<Send(c, build_lobby_info_response("Success", lobbies'[L]))>>

AllReturned(l) ==
    \A i \in 1..Len(lobbies[l].player_ids) :
        l \in DOMAIN games_in_progress
        => ~Contains(games_in_progress[l].players, lobbies[l].player_ids[i])

\* C29: once every client that is in a lobby's player_ids has returned from
\* the game started in the lobby, the registry holds no game for the lobby and
\* the lobby's game_started is false, whoever left or joined the lobby while
\* the game was running.
C29_GameEndsWhenAllReturned ==
    \A l \in DOMAIN lobbies :
        AllReturned(l) => l \notin DOMAIN games_in_progress /\ ~lobbies[l].game_started

\* A player left the lobby while its game was running and the player that
\* stayed has just returned to the lobby: the game is still in the registry
\* with the leaver as its only player.
C29_Witness ==
    \E l \in DOMAIN lobbies \cap DOMAIN games_in_progress :
        /\ lobbies[l].game_started
        /\ Len(lobbies[l].player_ids) = 1
        /\ Len(games_in_progress[l].players) = 1
        /\ games_in_progress[l].players[1] # lobbies[l].player_ids[1]
        /\ games_in_progress[l].players[1] \in DOMAIN clients
        /\ clients[games_in_progress[l].players[1]].lobby_id = None
        /\ Len(sent) = 1
        /\ sent[1] = Send(clients[lobbies[l].player_ids[1]].socket,
                          build_lobby_info_response("Success", lobbies[l]))

\* C30: every key of games_in_progress is the id of a lobby, and a lobby's
\* game_started is true exactly if games_in_progress holds a game under the
\* lobby's id.
C30_RegistryMatchesLobbies ==
    /\ \A g \in DOMAIN games_in_progress : g \in DOMAIN lobbies
    /\ \A l \in DOMAIN lobbies : lobbies[l].game_started <=> l \in DOMAIN games_in_progress

\* Both players of a started game have left the lobby: the lobby is deleted,
\* its game is still in the registry, and both clients are in no lobby.
C30_Witness ==
    \E g \in DOMAIN games_in_progress :
        /\ g \notin DOMAIN lobbies
        /\ Len(games_in_progress[g].players) = 2
        /\ \A i \in 1..2 :
              /\ games_in_progress[g].players[i] \in DOMAIN clients
              /\ clients[games_in_progress[g].players[i]].lobby_id = None
        /\ Len(sent) = 1
        /\ sent[1].type = "LeaveLobbyResponse" /\ sent[1].status = "Success"

\* The client of connection c is in the players of its lobby's live game and
\* holds the symbol whose turn it is.
MoverOnTurn(c) ==
    LET id == threads[c].client_id
        game == GameOf(c)
    IN  /\ Contains(game.players, id)
        /\ game.state.this_turn = "X" => game.state.x_player_id = id
        /\ game.state.this_turn = "O" => game.state.o_player_id = id
        /\ game.state.this_turn \in {"X", "O"}

\* C31: a MoveRequest changes the live game of the requester's lobby only if
\* the requester is one of the game's players and holds the symbol whose turn
\* it is.
C31_OnlyPlayerOnTurnMoves ==
    [][\A c \in GameConns, mv \in MoveInputs :
          \/ ~InLiveGame(c)
          \/ ~IndexInBounds(mv)
          \/ MoverOnTurn(c)
          \/ ~InSequence(c, "MoveRequest", mv, NoEnv)
          \/ games_in_progress'[LobbyOf(c)] = games_in_progress[LobbyOf(c)]]_vars

\* The only move of a game was made, and broadcast, after the player holding
\* X had returned to the lobby: the X on the board was put there by a client
\* that is not the game's X player.
C31_Witness ==
    \E L \in DOMAIN games_in_progress \cap DOMAIN lobbies :
        LET game == games_in_progress[L]
        IN  /\ game.state.x_player_id = ""
            /\ Len(game.players) = 1
            /\ game.state.this_turn = "O"
            /\ Cardinality({rk \in BoardIndices \X BoardIndices :
                               game.state.board[rk[1]][rk[2]] # "None"}) = 1
            /\ Len(sent) = 2
            /\ \A i \in 1..2 : sent[i] = Send(sent[i].to,
                                   build_game_state_response("Success", game.state))

\* The step is a valid MoveRequest of a client in lobby L, whose live game has
\* not ended.
ValidMoveIn(L) ==
    \E c \in GameConns, mv \in MoveInputs :
        /\ InLiveGame(c)
        /\ LobbyOf(c) = L
        /\ IndexInBounds(mv)
        /\ is_valid_move(GameOf(c), mv)
        /\ ~end_condition_met(GameOf(c))[1]
        /\ InSequence(c, "MoveRequest", mv, NoEnv)

\* C32: while a lobby has a game in games_in_progress, the game's board and
\* turn change only in the step of a valid MoveRequest; a StartGameRequest
\* for the lobby does not put a new game in its place.
C32_LiveGameChangesOnlyByMoves ==
    [][\A L \in DOMAIN games_in_progress :
          \/ L \notin DOMAIN games_in_progress'
          \/ /\ games_in_progress'[L].state.board = games_in_progress[L].state.board
             /\ games_in_progress'[L].state.this_turn = games_in_progress[L].state.this_turn
          \/ ValidMoveIn(L)]_vars

\* C33: while a lobby's game_started is true, no step adds a client to its
\* player_ids.
C33_NoJoinAfterStart ==
    [][\A l \in DOMAIN lobbies :
          \/ ~lobbies[l].game_started
          \/ l \notin DOMAIN lobbies'
          \/ \A i \in 1..Len(lobbies'[l].player_ids) :
                Contains(lobbies[l].player_ids, lobbies'[l].player_ids[i])]_vars

\* A JoinLobbyRequest has just succeeded on a lobby whose game is running:
\* both players of the lobby were written the lobby with the new player in it
\* and game_started true.
C33_Witness ==
    \E l \in DOMAIN lobbies \cap DOMAIN games_in_progress :
        /\ lobbies[l].game_started
        /\ Len(lobbies[l].player_ids) = 2
        /\ Len(sent) = 2
        /\ sent[1].to # sent[2].to
        /\ \A i \in 1..2 :
              sent[i] = Send(sent[i].to, build_lobby_info_response("Success", lobbies[l]))

\* C34: a step that takes a player out of a lobby that still has players
\* writes, to every player left in it, a LobbyInfoResponse(Success) with the
\* lobby as it is after the step.
C34_DepartureNotifiesRemaining ==
    [][\A l \in DOMAIN lobbies :
          \/ l \notin DOMAIN lobbies'
          \/ Len(lobbies'[l].player_ids) >= Len(lobbies[l].player_ids)
          \/ Len(lobbies'[l].player_ids) = 0
          \/ \A i \in 1..Len(lobbies'[l].player_ids) :
                \E j \in 1..Len(sent') :
                    sent'[j] = Send(clients[lobbies'[l].player_ids[i]].socket,
                                    build_lobby_info_response("Success", lobbies'[l]))]_vars

\* The clean up of a disconnected owner has just passed its lobby, which has
\* no game, to the remaining player and has written nothing to anybody.
C34_Witness ==
    /\ owner_changed
    /\ sent = <<>>
    /\ ~poisoned
    /\ games_in_progress = EmptyMap
    /\ \E c \in Conns : threads[c].pc = "exited" /\ threads[c].client_id \notin DOMAIN clients
    /\ \E l \in DOMAIN lobbies : Len(lobbies[l].player_ids) >= 1

\* Two clients whose messages arrive in and out of sequence and are answered
\* with successes and with ProtocolErrors.
\* A LobbyInfoRequest of a registered client whose id is not the expected one.
LobbyInfoOutOfSequence(c) ==
    /\ Listening(c) /\ Authenticated(c)
    /\ \E message_id \in MessageIds \ {ExpectedId(c)} :
           ListenToClient(c, Message(message_id, "LobbyInfoRequest", NoBody), NoEnv)

DispatchStep(c) ==
    \/ ConnectRequest(c)
    \/ LobbyInfoOutOfSequence(c)
    \/ LobbyInfoRequest(c)
    \/ CreateLobbyRequest(c)
    \/ JoinLobbyRequest(c)
    \/ StartGameRequest(c)
    \/ MoveRequest(c)
    \/ OtherRequest(c)
    \/ DisconnectRequest(c)
    \/ LockPoisoned(c)
    \/ CleanUpClient(c)

NextDispatch == \E c \in GameConns : DispatchStep(c)

SpecDispatch == Init /\ [][NextDispatch]_vars

\* The ids the Uuid loops of a request of message_type can end with.
DispatchEnvs(message_type) ==
    IF message_type = "CreateLobbyRequest"
    THEN {Env("", l, FALSE) : l \in NewLobbyIds}
    ELSE {NoEnv}

\* The step is the dispatch of an in-sequence message of the client of
\* connection c, other than a DisconnectRequest, that the thread of c comes
\* out of at the top of its loop.
Dispatched(c) ==
    /\ Listening(c) /\ Authenticated(c)
    /\ threads'[c].pc = "listening"
    /\ \E message_type \in RequestTypes \ {"DisconnectRequest"} :
          \E body \in Bodies(message_type), env \in DispatchEnvs(message_type) :
              InSequence(c, message_type, body, env)

\* The client of connection c is registered after the step and is expected to
\* send the number after the one it was expected to send before.
Advanced(c) ==
    /\ Listening(c) /\ Authenticated(c)
    /\ threads[c].client_id \in DOMAIN clients'
    /\ clients'[threads[c].client_id].next_message_id =
           (IF ExpectedId(c) = U32_MAX THEN 0 ELSE ExpectedId(c) + 1)

\* C35: the dispatch of an in-sequence message of a registered client, other
\* than a DisconnectRequest, leaves the client's next_message_id one above its
\* value before, 0 after u32::MAX, whatever the answer; no other step changes
\* the next_message_id of a registered client.
C35_ExpectedIdAdvances ==
    [][/\ \A c \in GameConns : Advanced(c) \/ ~Dispatched(c)
       /\ \A id \in DOMAIN clients \cap DOMAIN clients' :
             \/ clients'[id].next_message_id = clients[id].next_message_id
             \/ \E c \in GameConns : threads[c].client_id = id /\ Dispatched(c)]_vars

\* A request answered with a ProtocolError has just taken the client's
\* expected number from u32::MAX to 0.
C35_Witness ==
    \E c \in GameConns :
        /\ Listening(c) /\ Authenticated(c)
        /\ ExpectedId(c) = 0
        /\ Len(sent) = 1
        /\ sent[1].to = c
        /\ sent[1].type = "ProtocolError"

\* C36: a ConnectRequest with sequence number s on a connection without a
\* client id registers a client whose next_message_id is s + 1, 0 for
\* s = u32::MAX, and answers ConnectResponse(Success) with the client's id,
\* whatever s is and however the server was built.
C36_ConnectRegistersNext ==
    [][\A c \in GameConns, message_id \in MessageIds :
          \/ /\ Authenticated(c)'
             /\ threads'[c].pc = "listening"
             /\ ~poisoned'
             /\ threads'[c].client_id \in DOMAIN clients' \ DOMAIN clients
             /\ clients'[threads'[c].client_id].next_message_id =
                    (IF message_id = U32_MAX THEN 0 ELSE message_id + 1)
             /\ sent' = <<Send(c, build_connect_response("Success", threads'[c].client_id))>>
          \/ ~ /\ Listening(c) /\ ~Authenticated(c)
               /\ \E new_client_id \in NewClientIds(c), overflow_checks \in BOOLEAN :
                     ListenToClient(c, Message(message_id, "ConnectRequest", NoBody),
                                    Env(new_client_id, "", overflow_checks))]_vars

\* The first ConnectRequest the server read carried u32::MAX: the thread
\* panicked at message_id + 1 inside the lock, nobody is registered and the
\* Mutex is poisoned.
C36_Witness ==
    /\ poisoned
    /\ clients = EmptyMap
    /\ sent = <<>>
    /\ Cardinality({c \in GameConns : threads[c].pc = "panicked"}) = 1
    /\ \A c \in GameConns : threads[c].client_id = ""

(***************************************************************************)
(* The client's listen with the bodies of the messages: what the match on  *)
(* message_type stores of them.                                            *)
(***************************************************************************)
\* GameProtocolClientState::supported_games once the application has
\* registered its games, as client_bin does with register_game::<TicTacToe>().
client_supported_games == [g \in {TicTacToeTypeId} |-> TicTacToe_new]

\* TicTacToe::set_game_state: the board, the turn and the two player ids are
\* copied; winner and game_over are not.
set_game_state(game, new_state) ==
    [game EXCEPT !.state.board = new_state.board,
                 !.state.this_turn = new_state.this_turn,
                 !.state.x_player_id = new_state.x_player_id,
                 !.state.o_player_id = new_state.o_player_id]

\* The pairs (game title, game id) of the server's games the client supports
\* too, in the order of the server's list.
MatchingGames(games) ==
    LET matching == SelectSeq(games, LAMBDA g : g \in DOMAIN client_supported_games)
    IN  [i \in 1..Len(matching) |->
            <<client_supported_games[matching[i]].metadata.game_title, matching[i]>>]

\* The arm of GameStateResponse unwraps current_lobby, and the template of the
\* lobby's game type where it makes a new game.
DataPanics(d, st, message_type) ==
    /\ message_type = "GameStateResponse"
    /\ \/ d.current_lobby = NoneOf
       \/ /\ st.protocol_state \in {"CreatingGameSession", "InLobby"}
          /\ get_game_type_id(d.current_lobby[1].game_metadata)
                 \notin DOMAIN client_supported_games

\* The match on message_type in listen: what it stores of the body of the
\* message, in the state st the message arrives in.
HandleData(d, st, status_code, message_type, body) ==
    LET success == status_code = "Success"
    IN  CASE message_type = "ConnectResponse" ->
                IF success THEN [d EXCEPT !.client_id = body.client_id] ELSE d
          [] message_type = "DisconnectResponse" ->
                IF success
                THEN [d EXCEPT !.current_lobby = NoneOf, !.client_id = "",
                               !.lobbies = <<>>, !.matching_supported_games = <<>>]
                ELSE d
          [] message_type = "LobbyListResponse" ->
                IF success THEN [d EXCEPT !.lobbies = body.lobbies] ELSE d
          [] message_type = "SupportedGamesResponse" ->
                IF success
                THEN [d EXCEPT !.matching_supported_games = MatchingGames(body.games)]
                ELSE d
          [] message_type = "LobbyInfoResponse" ->
                IF success THEN [d EXCEPT !.current_lobby = SomeOf(body.lobby)] ELSE d
          [] message_type = "LeaveLobbyResponse" ->
                IF success THEN [d EXCEPT !.current_lobby = NoneOf] ELSE d
          [] message_type = "GameStateResponse" ->
                IF st.protocol_state \in {"CreatingGameSession", "InLobby"}
                THEN LET game_type_id == get_game_type_id(d.current_lobby[1].game_metadata)
                         new_game == init_new(client_supported_games[game_type_id])
                     IN  [d EXCEPT !.game_in_progress = SomeOf(set_game_state(new_game, body.state))]
                ELSE IF d.game_in_progress # NoneOf
                THEN [d EXCEPT !.game_in_progress =
                                   SomeOf(set_game_state(@[1], body.state))]
                ELSE d
          [] OTHER -> d

\* A lobby of two players and the states of its game a server sends: before
\* the first move and after it.
SampleLobby ==
    [owner |-> ClientIdNames[1],
     id |-> LobbyIdNames[1],
     player_ids |-> <<ClientIdNames[1], ClientIdNames[2]>>,
     game_started |-> FALSE,
     game_metadata |-> TicTacToeMetadata]

SampleGame == add_player(add_player(TicTacToe_new, ClientIdNames[1]), ClientIdNames[2])

SampleStates ==
    {get_game_state(SampleGame),
     get_game_state(apply_move(SampleGame, [board_index |-> <<0, 0>>, symbol |-> "X"]))}

\* The bodies the messages of a type arrive with.
DataBodies(message_type) ==
    CASE message_type = "ConnectResponse" -> {[client_id |-> ClientIdNames[1]]}
      [] message_type = "LobbyListResponse" -> {[lobbies |-> <<SampleLobby>>]}
      [] message_type = "SupportedGamesResponse" ->
            {[games |-> <<"Chess v1.0", TicTacToeTypeId>>]}
      [] message_type = "LobbyInfoResponse" -> {[lobby |-> SampleLobby]}
      [] message_type = "GameStateResponse" -> {[state |-> s] : s \in SampleStates}
      [] OTHER -> {NoBody}

\* The status codes the messages arrive with.
DataStatusCodes == {"Success", "NotInLobby"}

\* listen reads one message of the server, body included, and handles it.
ListenData(status_code, message_type, body) ==
    /\ client_pc = "listening"
    /\ read' = [status |-> status_code, type |-> message_type, body |-> body]
    /\ IF DataPanics(client_data, client_state, message_type)
       THEN /\ client_pc' = "panicked"
            /\ UNCHANGED <<client_state, client_data>>
       ELSE /\ client_pc' = "ready"
            /\ client_state' = HandleMessage(client_state, status_code, message_type)
            /\ client_data' = HandleData(client_data, client_state, status_code,
                                         message_type, body)
    /\ UNCHANGED <<client_op, written, state_at_request, inbox, connection,
                   is_listening_async, async_pc, stopped, late_reads, server_vars,
                   codec_vars>>

\* The operations the client calls while the bodies are followed.
DataOperations == {"request_supported_games", "start_game", "disconnect"}

\* The messages whose arm of the match stores something of the session.
DataMessageTypes ==
    {"ConnectResponse", "DisconnectResponse", "SupportedGamesResponse",
     "LobbyInfoResponse", "LeaveLobbyResponse", "GameStateResponse"}

NextData ==
    \/ \E op \in DataOperations : Operation(op)
    \/ \E tcp_ok \in BOOLEAN : Connect(tcp_ok)
    \/ SendMessage
    \/ \E status_code \in DataStatusCodes, message_type \in DataMessageTypes :
          \E body \in DataBodies(message_type) :
              ListenData(status_code, message_type, body)
    \/ ListenNothing

SpecData == Init /\ [][NextData]_vars

\* C38: when listen has handled DisconnectResponse(Success), the session
\* state is that of GameProtocolClient::new: both protocol states Closed, no
\* socket, an empty client id, no current lobby, no lobbies, no matching
\* games, no game in progress and message number 0.
C38_DisconnectResetsSession ==
    [][\/ /\ client_state'.protocol_state = "Closed"
          /\ client_state'.previous_protocol_state = "Closed"
          /\ ~client_state'.socket
          /\ client_state'.next_message_num = 0
          /\ client_data'.client_id = ""
          /\ client_data'.current_lobby = NoneOf
          /\ client_data'.lobbies = <<>>
          /\ client_data'.matching_supported_games = <<>>
          /\ client_data'.game_in_progress = NoneOf
          /\ client_data' = DataNew
       \/ ~ListenData("Success", "DisconnectResponse", NoBody)]_vars

\* DisconnectResponse(Success) has just been handled by a client that had a
\* game: the socket and the client id are gone, the game and the previous
\* state are still there.
C38_Witness ==
    /\ client_pc = "ready"
    /\ read = [status |-> "Success", type |-> "DisconnectResponse", body |-> NoBody]
    /\ ~client_state.socket
    /\ client_data.client_id = ""
    /\ client_state.protocol_state = "Closed"
    /\ client_state.previous_protocol_state # "Closed"
    /\ client_data.game_in_progress # NoneOf


\* C39: when listen has handled a GameStateResponse without panicking,
\* protocol_state is GameRunning and the client has a game whose state is the
\* state of the message: a new game when the client was in
\* CreatingGameSession or InLobby, else the game it had, updated.
C39_GameStateAdopted ==
    [][\A status_code \in DataStatusCodes :
          \A body \in DataBodies("GameStateResponse") :
              \/ /\ client_state'.protocol_state = "GameRunning"
                 /\ client_data'.game_in_progress # NoneOf
                 /\ get_game_state(client_data'.game_in_progress[1]) = body.state
                 /\ IF client_state.protocol_state \in {"CreatingGameSession", "InLobby"}
                    THEN client_data'.game_in_progress
                             = SomeOf(set_game_state(TicTacToe_new, body.state))
                    ELSE /\ client_data.game_in_progress # NoneOf
                         /\ client_data'.game_in_progress
                                = SomeOf(set_game_state(client_data.game_in_progress[1],
                                                        body.state))
              \/ ~(/\ client_pc' = "ready"
                   /\ ListenData(status_code, "GameStateResponse", body))]_vars

\* A GameStateResponse has just been handled by a client in a lobby that was
\* in neither of the two states and had no game: it has no game still, and
\* is not in GameRunning.
C39_Witness ==
    /\ client_pc = "ready"
    /\ read.type = "GameStateResponse"
    /\ client_data.current_lobby # NoneOf
    /\ client_data.game_in_progress = NoneOf
    /\ client_state.protocol_state # "GameRunning"


(***************************************************************************)
(* async_listen and stop_async_listen: the threads that listen in a loop   *)
(* while the flag is_listening_async is set.                               *)
(***************************************************************************)
Loops == 1..MaxLoops

\* A thread that panicked in listen held the lock of the state: the Mutex is
\* poisoned, and every later lock().unwrap() panics.
AsyncPoisoned ==
    \/ client_pc = "panicked"
    \/ \E i \in Loops : async_pc[i] = "panicked"

\* async_listen: clones the socket, which it unwraps, and spawns the thread
\* of the loop; it returns without waiting for the thread to run.
AsyncListen ==
    /\ client_pc = "ready"
    /\ ~AsyncPoisoned
    /\ \E i \in Loops :
          /\ async_pc[i] = "unspawned"
          /\ \A j \in Loops : j < i => async_pc[j] # "unspawned"
          /\ IF client_state.socket
             THEN /\ async_pc' = [async_pc EXCEPT ![i] = "spawned"]
                  /\ stopped' = FALSE
                  /\ late_reads' = [j \in Loops |-> 0]
                  /\ UNCHANGED client_pc
             ELSE /\ client_pc' = "panicked"
                  /\ UNCHANGED <<async_pc, stopped, late_reads>>
    /\ UNCHANGED <<client_state, client_op, written, state_at_request, inbox, connection,
                   client_data, read, is_listening_async, server_vars, codec_vars>>

\* stop_async_listen: clears the flag.
StopAsyncListen ==
    /\ client_pc = "ready"
    /\ ~AsyncPoisoned
    /\ is_listening_async' = FALSE
    /\ stopped' = (\E i \in Loops : async_pc[i] # "unspawned")
    /\ late_reads' = [j \in Loops |-> 0]
    /\ UNCHANGED <<client_state, client_pc, client_op, written, state_at_request, inbox,
                   connection, client_data, read, async_pc, server_vars, codec_vars>>

\* The first statement of the spawned thread sets the flag.
LoopStart(i) ==
    /\ async_pc[i] = "spawned"
    /\ ~AsyncPoisoned
    /\ is_listening_async' = TRUE
    /\ async_pc' = [async_pc EXCEPT ![i] = "top"]
    /\ UNCHANGED <<client_state, client_pc, client_op, written, state_at_request, inbox,
                   connection, client_data, read, stopped, late_reads, server_vars,
                   codec_vars>>

\* The top of the loop: listen if the flag is set, else break.
LoopCheck(i) ==
    /\ async_pc[i] = "top"
    /\ ~AsyncPoisoned
    /\ async_pc' = [async_pc EXCEPT ![i] = IF is_listening_async THEN "listen" ELSE "exited"]
    /\ UNCHANGED <<client_state, client_pc, client_op, written, state_at_request, inbox,
                   connection, client_data, read, is_listening_async, stopped, late_reads,
                   server_vars, codec_vars>>

\* listen: with a socket in the state the thread starts to read, without one
\* it returns at once.  late_reads counts the reads a thread starts while the
\* last call was stop_async_listen.
LoopListen(i) ==
    /\ async_pc[i] = "listen"
    /\ ~AsyncPoisoned
    /\ IF client_state.socket
       THEN /\ async_pc' = [async_pc EXCEPT ![i] = "reading"]
            /\ late_reads' = IF stopped /\ late_reads[i] < 2
                             THEN [late_reads EXCEPT ![i] = @ + 1]
                             ELSE late_reads
       ELSE /\ async_pc' = [async_pc EXCEPT ![i] = "top"]
            /\ UNCHANGED late_reads
    /\ UNCHANGED <<client_state, client_pc, client_op, written, state_at_request, inbox,
                   connection, client_data, read, is_listening_async, stopped, server_vars,
                   codec_vars>>

\* The read of the thread returns a message, which listen handles.
LoopRead(i, status_code, message_type, body) ==
    /\ async_pc[i] = "reading"
    /\ read' = [status |-> status_code, type |-> message_type, body |-> body]
    /\ IF AsyncPoisoned \/ DataPanics(client_data, client_state, message_type)
       THEN /\ async_pc' = [async_pc EXCEPT ![i] = "panicked"]
            /\ UNCHANGED <<client_state, client_data>>
       ELSE /\ async_pc' = [async_pc EXCEPT ![i] = "top"]
            /\ client_state' = HandleMessage(client_state, status_code, message_type)
            /\ client_data' = HandleData(client_data, client_state, status_code,
                                         message_type, body)
    /\ UNCHANGED <<client_pc, client_op, written, state_at_request, inbox, connection,
                   is_listening_async, stopped, late_reads, server_vars, codec_vars>>

\* The read of the thread returns Ok(0) or Err(e).
LoopReadNothing(i) ==
    /\ async_pc[i] = "reading"
    /\ async_pc' = [async_pc EXCEPT ![i] = "top"]
    /\ UNCHANGED <<client_state, client_pc, client_op, written, state_at_request, inbox,
                   connection, client_data, read, is_listening_async, stopped, late_reads,
                   server_vars, codec_vars>>

\* A thread that takes the lock of a poisoned Mutex panics.
LoopPoisoned(i) ==
    /\ async_pc[i] \in {"spawned", "top", "listen"}
    /\ AsyncPoisoned
    /\ async_pc' = [async_pc EXCEPT ![i] = "panicked"]
    /\ UNCHANGED <<client_state, client_pc, client_op, written, state_at_request, inbox,
                   connection, client_data, read, is_listening_async, stopped, late_reads,
                   server_vars, codec_vars>>

\* The messages that arrive while the loops are followed.
AsyncMessageTypes ==
    {"ConnectResponse", "DisconnectResponse", "LobbyInfoResponse", "GameStateResponse"}

\* The steps of the thread of loop i.
LoopThread(i) ==
    \/ LoopStart(i)
    \/ LoopCheck(i)
    \/ LoopListen(i)
    \/ \E message_type \in AsyncMessageTypes : \E body \in DataBodies(message_type) :
          LoopRead(i, "Success", message_type, body)
    \/ LoopReadNothing(i)
    \/ LoopPoisoned(i)

\* The application connects, starts and stops loops; the threads run.
NextAsync ==
    \/ ~AsyncPoisoned /\ \E tcp_ok \in BOOLEAN : Connect(tcp_ok)
    \/ ~AsyncPoisoned /\ SendMessage
    \/ \E message_type \in AsyncMessageTypes : \E body \in DataBodies(message_type) :
          ~AsyncPoisoned /\ ListenData("Success", message_type, body)
    \/ ListenNothing
    \/ AsyncListen
    \/ StopAsyncListen
    \/ \E i \in Loops : LoopThread(i)

\* Every thread that can take a step takes one in the end, and every read in
\* flight returns.
SpecAsync ==
    /\ Init
    /\ [][NextAsync]_vars
    /\ \A i \in Loops : WF_vars(LoopThread(i))

\* Every loop that was started has ended, by break or by panic.
LoopsEnded == \A i \in Loops : async_pc[i] \in {"unspawned", "exited", "panicked"}

\* C37: once stop_async_listen was called on a client with a started loop,
\* and no loop is started after it, every loop thread ends, and no thread
\* starts more than the one read it had passed the check for.
C37_StopEndsLoop ==
    /\ stopped ~> (~stopped \/ LoopsEnded)
    /\ [](\A i \in Loops : late_reads[i] <= 1)

\* stop_async_listen was the last call, and a loop thread is reading for the
\* second time since.
C37_Witness ==
    /\ stopped
    /\ \E i \in Loops : async_pc[i] = "reading" /\ late_reads[i] = 2


\* The frame holds its length and checksum fields and declares more bytes
\* than follow the checksum field.
LengthBeyondBytes(frame) ==
    /\ Len(frame) >= 2 * SizeOfU32
    /\ from_be_bytes(SubSeq(frame, 1, SizeOfU32)) > Len(frame) - 2 * SizeOfU32

\* C40: for every frame whose declared length L is greater than the number
\* of bytes after the checksum field, parse_message_payload returns
\* Err(BodySizeError), and does not panic.
C40_BodySizeErrorReturned ==
    codec_pc = "parsed" /\ LengthBeyondBytes(raw_message)
    => parse_result = Err("BodySizeError")

\* A frame that declares more bytes than it holds has been parsed, and the
\* call panicked.
C40_Witness ==
    /\ codec_pc = "parsed"
    /\ LengthBeyondBytes(raw_message)
    /\ parse_result = Panicked

====
